---- MODULE Spec2Model ----
(***************************************************************************)
(* Model of the validation result pipeline of dc-import-validator:         *)
(*   scripts/run_validation.py          (orchestrator)                     *)
(*   scripts/structural_lint_error_count.py (local evaluator)              *)
(*   scripts/apply_warn_only.py         (warn-only post-processor)         *)
(*   scripts/check_csv_row_count.py     (row-count append)                 *)
(* Text is modelled as a sequence of characters so that trimming and case  *)
(* folding are computed, not assumed.                                      *)
(***************************************************************************)
EXTENDS Integers, Sequences, FiniteSets, TLC

VARIABLES
    outFile,    \* the validation_output artifact on disk: [kind, results]
    warnFile,   \* the warn_only_rules.json file on disk: [kind, map]
    cmd,        \* the last post-processing command that ran, with its outcome
    appends,    \* number of row-count appends so far (bounded)
    configFile, \* the rule configuration file: [kind, rules]
    dataRepo,   \* DATA_REPO is set and names a directory
    lintReport, \* the lint report file: [kind, counters]
    pc,         \* position of the orchestrator's main()
    dc_rules,   \* main's dc_rules
    custom_rules,   \* main's custom_rules
    dc_results,     \* main's dc_results
    custom_results, \* main's custom_results
    exitCode,   \* exit status of the orchestrator process (-1 while running)
    raised,     \* the uncaught exception that ended main(), "" for none
    toolCalls,  \* the filtered configs the external tool was invoked with
    writes,     \* number of times main() wrote the artifact
    writer,     \* an open(path, "w") in progress: [state, by, old, new]
    ev          \* one call of a local evaluator: its inputs and what it returned

postVars == <<warnFile, cmd, appends>>
runVars == <<configFile, dataRepo, lintReport, pc, dc_rules, custom_rules,
             dc_results, custom_results, exitCode, raised, toolCalls, writes>>
vars == <<outFile, postVars, runVars, writer, ev>>

----------------------------------------------------------------------------
(* Bounds of the model *)

MaxResults == 2     \* length of the result array the post-processor starts from
MaxAppends == 1     \* row-count appends per behaviour
MaxRules == 2       \* rules in a configuration
MaxRows == 2        \* data rows of a stats summary
MaxCounters == 2    \* LEVEL_ERROR counters of a lint report
MaxValue == 2       \* value of one counter
MaxThreshold == 2   \* threshold of the structural lint rule
MaxPoints == 3      \* problem points of a fluctuation counter
MaxConfigRules == 3 \* rules of a configuration under validation

----------------------------------------------------------------------------
(* Text: str.strip() and str.lower() on character sequences *)

Null == <<"\\null">>          \* JSON null / absent key (Python None)

IsSpace(c) == c = " "

lower_char(c) == IF c = "A" THEN "a" ELSE IF c = "B" THEN "b" ELSE c

lower(s) == [i \in 1..Len(s) |-> lower_char(s[i])]

RECURSIVE lstrip(_)
lstrip(s) == IF s = <<>> THEN s
             ELSE IF IsSpace(Head(s)) THEN lstrip(Tail(s)) ELSE s

RECURSIVE rstrip(_)
rstrip(s) == IF s = <<>> THEN s
             ELSE IF IsSpace(s[Len(s)]) THEN rstrip(SubSeq(s, 1, Len(s) - 1)) ELSE s

strip(s) == rstrip(lstrip(s))

SeqRange(s) == {s[i] : i \in 1..Len(s)}

RECURSIVE SeqsUpTo(_, _)
SeqsUpTo(S, n) == IF n = 0 THEN {<<>>}
                  ELSE LET shorter == SeqsUpTo(S, n - 1)
                       IN shorter \cup {Append(s, x) : s \in {t \in shorter : Len(t) = n - 1}, x \in S}

----------------------------------------------------------------------------
(* ValidationResult objects and the artifact *)

Statuses == {"PASSED", "FAILED", "WARNING", "CONFIG_ERROR", "DATA_ERROR"}

NameA == <<"a">>
NamePadA == <<" ", "A">>
NameB == <<"b">>
NameRowCount == <<"check_csv_row_count">>

Result(name, status, message, details, params) ==
    [isDict |-> TRUE, validation_name |-> name, status |-> status,
     message |-> message, details |-> details, validation_params |-> params]

\* an array element that is not a JSON object (skipped by isinstance(r, dict))
NonDict == [isDict |-> FALSE, validation_name |-> Null, status |-> "",
            message |-> "", details |-> [detail |-> Null], validation_params |-> [param |-> ""]]

SampleResult(name, status) ==
    Result(name, status, IF status = "PASSED" THEN "" ELSE "msg",
           [detail |-> name], [param |-> status])

ResultSamples ==
    {SampleResult(n, "FAILED") : n \in {NameA, NamePadA, NameB, Null}}
    \cup {SampleResult(NameA, s) : s \in Statuses \ {"FAILED"}}
    \cup {NonDict}

FileKinds == {"missing", "invalid", "object", "scalar", "array"}

ArrayFile(rs) == [kind |-> "array", results |-> rs]
OtherFile(k) == [kind |-> k, results |-> <<>>]

----------------------------------------------------------------------------
(* warn_only_rules.json: dataset -> list of rule ids *)

Datasets == {"d1", "d2"}

NotList == [isList |-> FALSE, items |-> <<>>]
WarnList(items) == [isList |-> TRUE, items |-> items]

ListA == WarnList(<< <<"A", " ">>, NameRowCount >>)
ListB == WarnList(<<NameB, Null, <<" ">> >>)
ListBlank == WarnList(<< <<" ">> >>)

WarnMap(l1, l2) == [d \in Datasets |-> IF d = "d1" THEN l1 ELSE l2]

WarnFiles ==
    {[kind |-> k, map |-> WarnMap(NotList, NotList)] : k \in {"missing", "invalid", "nonmap"}}
    \cup {[kind |-> "map", map |-> WarnMap(l1, l2)] : l1 \in {ListA, ListBlank}, l2 \in {NotList, ListB}}

----------------------------------------------------------------------------
(* scripts/apply_warn_only.py *)

\* lines 34-37: the dataset's warn-only set, trimmed and lower-cased
warn_only_set(wf, dataset) ==
    LET raw == IF wf.map[dataset].isList THEN wf.map[dataset].items ELSE <<>>
    IN {lower(strip(x)) : x \in {y \in SeqRange(raw) : y # Null /\ strip(y) # <<>>}}

\* the same test without trimming the validation_name
should_convert_untrimmed(r, warn_only) ==
    /\ r.isDict
    /\ r.status = "FAILED"
    /\ r.validation_name # Null
    /\ lower(r.validation_name) \in warn_only

\* the same test matching every status but PASSED
should_convert_not_passed(r, warn_only) ==
    /\ r.isDict
    /\ r.status # "PASSED"
    /\ r.validation_name # Null
    /\ lower(strip(r.validation_name)) \in warn_only

\* lines 43-47: the test for one result
should_convert(r, warn_only) ==
    /\ r.isDict
    /\ r.status = "FAILED"
    /\ r.validation_name # Null
    /\ lower(strip(r.validation_name)) \in warn_only

\* lines 48: the rewrite of one result
convert_result(r, warn_only) ==
    IF should_convert(r, warn_only) THEN [r EXCEPT !.status = "WARNING"] ELSE r

ApplyReturn(outcome, converted, file) ==
    [outcome |-> outcome, converted |-> converted, file |-> file]

\* lines 13-55: returns the outcome ("ok" = success True, "fail" = success
\* False, "crash" = uncaught exception), converted_count and the artifact after
apply_warn_only(file, wf, dataset) ==
    IF file.kind \in {"missing", "invalid"} THEN ApplyReturn("fail", 0, file)
    ELSE IF wf.kind \in {"missing", "invalid"} THEN ApplyReturn("fail", 0, file)
    ELSE IF wf.kind = "nonmap" THEN ApplyReturn("crash", 0, file)
    ELSE LET warn_only == warn_only_set(wf, dataset)
         IN IF warn_only = {} THEN ApplyReturn("ok", 0, file)
            ELSE IF file.kind = "scalar" THEN ApplyReturn("crash", 0, file)
            ELSE IF file.kind = "object" THEN ApplyReturn("ok", 0, file)
            ELSE LET rs == file.results
                     converted == Cardinality({i \in 1..Len(rs) : should_convert(rs[i], warn_only)})
                     after == [i \in 1..Len(rs) |-> convert_result(rs[i], warn_only)]
                 IN ApplyReturn("ok", converted,
                                IF converted > 0 THEN ArrayFile(after) ELSE file)

\* a rewrite of the artifact after every successful pass
apply_warn_only_wrote_always(ret) == ret.outcome = "ok"

\* lines 51-53: the artifact is opened for writing only under "if converted"
apply_warn_only_wrote(ret) == ret.outcome = "ok" /\ ret.converted > 0

\* a blocker check that looks for FAILED only and finds none in a non-array
has_blockers_open(file) ==
    IF file.kind \in {"missing", "invalid"} THEN TRUE
    ELSE \E i \in 1..Len(file.results) :
            file.results[i].isDict /\ file.results[i].status = "FAILED"

\* lines 58-67
has_blockers(file) ==
    IF file.kind \in {"missing", "invalid"} THEN TRUE
    ELSE IF file.kind # "array" THEN TRUE
    ELSE \E i \in 1..Len(file.results) :
            file.results[i].isDict /\ file.results[i].status = "FAILED"

\* a blocker check that reads the artifact as it was before the conversion
apply_warn_only_exit_stale(before, ret, check_blockers) ==
    IF ret.outcome # "ok" THEN 1
    ELSE IF check_blockers /\ has_blockers(before) THEN 1
    ELSE 0

\* lines 88-100: the exit code of the command; has_blockers re-reads the
\* artifact from disk after apply_warn_only returned (ret.file), never the
\* content main() started from (before)
apply_warn_only_exit(before, ret, check_blockers) ==
    IF ret.outcome # "ok" THEN 1
    ELSE IF check_blockers /\ has_blockers(ret.file) THEN 1
    ELSE 0

\* line 98: what the blocker check answered, when it was made
blockers_report(before, ret, check_blockers) ==
    IF ret.outcome # "ok" \/ ~check_blockers THEN "unchecked"
    ELSE IF has_blockers(ret.file) THEN "blockers" ELSE "none"

----------------------------------------------------------------------------
(* scripts/check_csv_row_count.py *)

CsvInputs == {[exists |-> FALSE, lines |-> 0],
              [exists |-> TRUE, lines |-> 1],
              [exists |-> TRUE, lines |-> 3]}

Thresholds == {1}

\* lines 28-37
count_data_rows(csv) ==
    IF ~csv.exists THEN 0
    ELSE IF csv.lines = 0 THEN 0
    ELSE IF csv.lines - 1 > 0 THEN csv.lines - 1 ELSE 0

\* lines 40-55
build_entry(n, threshold) ==
    IF n > threshold
    THEN Result(NameRowCount, "FAILED", "exceeds",
                [row_count |-> n, threshold |-> threshold], [threshold |-> threshold])
    ELSE Result(NameRowCount, "PASSED", "",
                [row_count |-> n, threshold |-> threshold], [threshold |-> threshold])

\* append mode writing the single entry as the pre-import mode does
check_csv_row_count_overwrite(file, csv, threshold) ==
    IF file.kind # "array" THEN file
    ELSE ArrayFile(<<build_entry(count_data_rows(csv), threshold)>>)

\* lines 93-110: append mode; returns the artifact after
check_csv_row_count_append(file, csv, threshold) ==
    IF file.kind # "array" THEN file
    ELSE ArrayFile(Append(file.results, build_entry(count_data_rows(csv), threshold)))

----------------------------------------------------------------------------
(* scripts/structural_lint_error_count.py *)

EXCLUDE_PREFIX == <<"Existence_FailedDcCall_">>

\* str.startswith
startswith(key, prefix) ==
    Len(key) >= Len(prefix) /\ SubSeq(key, 1, Len(prefix)) = prefix

\* a counter of levelSummary.LEVEL_ERROR.counters; int(value) raises ValueError
\* when the value is not integer-like
Counter(key, value, intlike) == [key |-> key, value |-> value, intlike |-> intlike]

KeyStructural == <<"StructuralFoo">>
KeyResolution == <<"Existence_FailedDcCall_", "X">>

LintReports ==
    {[kind |-> k, counters |-> <<>>] : k \in {"none", "invalid", "report"}}
    \cup {[kind |-> "report", counters |-> cs] :
             cs \in {<<Counter(KeyStructural, 1, TRUE)>>,
                     <<Counter(KeyStructural, 1, TRUE), Counter(KeyResolution, 5, TRUE)>>,
                     <<Counter(KeyResolution, 2, FALSE)>>,
                     <<Counter(KeyStructural, 0, FALSE)>>}}

RECURSIVE SumValues(_)
SumValues(cs) == IF cs = <<>> THEN 0 ELSE Head(cs).value + SumValues(Tail(cs))

\* a count that takes every LEVEL_ERROR counter
compute_structural_lint_count_all(report) ==
    IF \E i \in 1..Len(report.counters) : ~report.counters[i].intlike
    THEN [raised |-> "ValueError", count |-> 0]
    ELSE [raised |-> "", count |-> SumValues(report.counters)]

\* lines 21-36: [raised, count]
compute_structural_lint_count(report) ==
    LET counted == SelectSeq(report.counters, LAMBDA c : ~startswith(c.key, EXCLUDE_PREFIX))
    IN IF \E i \in 1..Len(counted) : ~counted[i].intlike
       THEN [raised |-> "ValueError", count |-> 0]
       ELSE [raised |-> "", count |-> SumValues(counted)]

Params(has_threshold, threshold) == [has_threshold |-> has_threshold, threshold |-> threshold]

\* an evaluator that fails a count equal to the threshold
run_structural_lint_at_least(report, params, rule_id) ==
    LET threshold == IF params.has_threshold THEN params.threshold ELSE 0
        c == compute_structural_lint_count(report)
    IN [raised |-> c.raised,
        result |-> IF c.count >= threshold
                   THEN Result(rule_id, "FAILED", "exceeds",
                               [lint_error_count |-> c.count], params)
                   ELSE Result(rule_id, "PASSED", "",
                               [lint_error_count |-> c.count], params)]

\* lines 39-75: [raised, result]
run_structural_lint(report, params, rule_id) ==
    LET threshold == IF params.has_threshold THEN params.threshold ELSE 0
        c == compute_structural_lint_count(report)
    IN [raised |-> c.raised,
        result |-> IF c.count > threshold
                   THEN Result(rule_id, "FAILED", "exceeds",
                               [lint_error_count |-> c.count], params)
                   ELSE Result(rule_id, "PASSED", "",
                               [lint_error_count |-> c.count], params)]

----------------------------------------------------------------------------
(* scripts/run_validation.py *)

CUSTOM_VALIDATORS == {"STRUCTURAL_LINT_ERROR_COUNT"}
DC_EXCLUDE_VALIDATORS == {"LINT_ERROR_COUNT", "STRUCTURAL_LINT_ERROR_COUNT"}

Rule(rule_id, validator, enabled, params) ==
    [rule_id |-> rule_id, validator |-> validator, enabled |-> enabled, params |-> params]

\* an absent "validator" reads as "", an absent "enabled" as True
RuleSamples ==
    {Rule(NameA, "MIN_VALUE_CHECK", TRUE, Params(FALSE, 0)),
     Rule(NameB, "", TRUE, Params(FALSE, 0)),
     Rule(NameA, "MIN_VALUE_CHECK", FALSE, Params(FALSE, 0)),
     Rule(NameB, "STRUCTURAL_LINT_ERROR_COUNT", TRUE, Params(FALSE, 0)),
     Rule(NameA, "STRUCTURAL_LINT_ERROR_COUNT", TRUE, Params(TRUE, 1)),
     Rule(NameB, "STRUCTURAL_LINT_ERROR_COUNT", FALSE, Params(FALSE, 0)),
     Rule(NameA, "LINT_ERROR_COUNT", TRUE, Params(FALSE, 0))}

ConfigFiles ==
    {[kind |-> k, rules |-> <<>>] : k \in {"missing", "invalid"}}
    \cup {[kind |-> "config", rules |-> rs] : rs \in SeqsUpTo(RuleSamples, MaxRules)}

\* a split that hands the excluded validators to the external tool
_split_rules_with_excluded(config) ==
    [dc |-> SelectSeq(config.rules,
                      LAMBDA r : r.enabled /\ r.validator \notin CUSTOM_VALIDATORS),
     custom |-> SelectSeq(config.rules,
                          LAMBDA r : r.enabled /\ r.validator \in CUSTOM_VALIDATORS)]

\* a split that forgets the enabled flag
_split_rules_all(config) ==
    [dc |-> SelectSeq(config.rules,
                      LAMBDA r : r.validator \notin CUSTOM_VALIDATORS
                                 /\ r.validator \notin DC_EXCLUDE_VALIDATORS),
     custom |-> SelectSeq(config.rules, LAMBDA r : r.validator \in CUSTOM_VALIDATORS)]

\* lines 38-57: (dc_rules, custom_rules)
_split_rules(config) ==
    [dc |-> SelectSeq(config.rules,
                      LAMBDA r : r.enabled
                                 /\ r.validator \notin CUSTOM_VALIDATORS
                                 /\ r.validator \notin DC_EXCLUDE_VALIDATORS),
     custom |-> SelectSeq(config.rules,
                          LAMBDA r : r.enabled /\ r.validator \in CUSTOM_VALIDATORS)]

\* lines 60-103: the result lists the DC runner can leave behind for the rules
\* submitted to it: one result per rule in order, of any status, possibly cut
\* short (a missing, empty or unparsable output file reads as [])
ToolResult(rule, status) ==
    Result(rule.rule_id, status, IF status = "PASSED" THEN "" ELSE "msg",
           [detail |-> rule.rule_id], rule.params)

RECURSIVE ToolOutputs(_)
ToolOutputs(rules) ==
    IF rules = <<>> THEN {<<>>}
    ELSE {<<>>} \cup {<<ToolResult(Head(rules), s)>> \o rest :
                         s \in Statuses, rest \in ToolOutputs(Tail(rules))}

_run_dc_runner(rules) == ToolOutputs(rules)

\* lines 119-129: the loop over custom_rules: [raised, results]
RECURSIVE run_custom_loop(_, _)
run_custom_loop(rules, report) ==
    IF rules = <<>> THEN [raised |-> "", results |-> <<>>]
    ELSE LET rule == Head(rules)
         IN IF rule.validator = "STRUCTURAL_LINT_ERROR_COUNT"
            THEN LET r == run_structural_lint(report, rule.params, rule.rule_id)
                     rest == run_custom_loop(Tail(rules), report)
                 IN IF r.raised # "" THEN [raised |-> r.raised, results |-> <<>>]
                    ELSE [raised |-> rest.raised,
                          results |-> IF rest.raised # "" THEN <<>>
                                      ELSE <<r.result>> \o rest.results]
            ELSE run_custom_loop(Tail(rules), report)

\* lines 106-131: [raised, results]; json.load of the lint report comes first
_run_custom_validators(rules, report) ==
    IF report.kind = "invalid" THEN [raised |-> "JSONDecodeError", results |-> <<>>]
    ELSE run_custom_loop(rules, IF report.kind = "report" THEN report
                                ELSE [kind |-> "none", counters |-> <<>>])

\* an exit code that forgets the partial-output test
run_validation_exit_all_passed(rules, results, combined) ==
    IF \A i \in 1..Len(combined) : combined[i].status = "PASSED" THEN 0 ELSE 1

\* lines 209-213
run_validation_exit(rules, results, combined) ==
    LET all_passed == \A i \in 1..Len(combined) : combined[i].status = "PASSED"
        dc_run_ok == rules = <<>> \/ Len(results) >= Len(rules)
    IN IF ~dc_run_ok THEN 1
       ELSE IF all_passed THEN 0 ELSE 1

\* cmd.first is the converted_count of the command just before when that was a
\* successful apply_warn_only for the same dataset, and -1 otherwise
NoCmd == [op |-> "none", dataset |-> "", check_blockers |-> FALSE,
          outcome |-> "", converted |-> 0, exit |-> 0, blockers |-> "unchecked",
          first |-> -1, before |-> OtherFile("missing"), wrote |-> FALSE]

NoWriter == [state |-> "idle", by |-> "", old |-> OtherFile("missing"),
             new |-> OtherFile("missing")]

\* an artifact left by an earlier run
StaleFile == ArrayFile(<<SampleResult(NameB, "PASSED")>>)

RunIdle ==
    /\ dc_rules = <<>>
    /\ custom_rules = <<>>
    /\ dc_results = <<>>
    /\ custom_results = <<>>
    /\ exitCode = -1
    /\ raised = ""
    /\ toolCalls = <<>>
    /\ writes = 0
    /\ writer = NoWriter

PostIdle ==
    /\ cmd = NoCmd
    /\ appends = 0

\* no evaluator call under observation
NoEval == [phase |-> "none"]

EvalIdle == ev = NoEval

InitRun ==
    /\ outFile \in {OtherFile("missing"), StaleFile}
    /\ warnFile = [kind |-> "map", map |-> WarnMap(ListA, ListB)]
    /\ configFile \in ConfigFiles
    /\ dataRepo \in BOOLEAN
    /\ lintReport \in LintReports
    /\ pc = "start"
    /\ RunIdle
    /\ PostIdle
    /\ EvalIdle

Exit(code, exc) ==
    /\ pc' = "done"
    /\ exitCode' = code
    /\ raised' = exc

\* lines 150-157: the config check, _load_config and _split_rules
RunStart ==
    /\ pc = "start"
    /\ IF configFile.kind = "missing"
       THEN Exit(2, "") /\ UNCHANGED <<dc_rules, custom_rules>>
       ELSE IF configFile.kind = "invalid"
       THEN Exit(1, "JSONDecodeError") /\ UNCHANGED <<dc_rules, custom_rules>>
       ELSE /\ dc_rules' = _split_rules(configFile).dc
            /\ custom_rules' = _split_rules(configFile).custom
            /\ pc' = "dc"
            /\ UNCHANGED <<exitCode, raised>>
    /\ UNCHANGED <<ev, outFile, postVars, configFile, dataRepo, lintReport,
                   dc_results, custom_results, toolCalls, writes, writer>>

\* a DC step that hands the artifact path to the runner, which writes it at once
RunDC_direct ==
    /\ pc = "dc"
    /\ IF dc_rules = <<>>
       THEN /\ pc' = "custom"
            /\ UNCHANGED <<dc_results, toolCalls, exitCode, raised, outFile, writes>>
       ELSE IF ~dataRepo
       THEN Exit(2, "") /\ UNCHANGED <<dc_results, toolCalls, outFile, writes>>
       ELSE /\ dc_results' \in _run_dc_runner(dc_rules)
            /\ toolCalls' = Append(toolCalls, dc_rules)
            /\ outFile' = ArrayFile(dc_results')
            /\ writes' = writes + 1
            /\ pc' = "custom"
            /\ UNCHANGED <<exitCode, raised>>
    /\ UNCHANGED <<ev, postVars, configFile, dataRepo, lintReport,
                   dc_rules, custom_rules, custom_results, writer>>

\* a DC step that invokes the runner without looking at DATA_REPO
RunDC_unchecked ==
    /\ pc = "dc"
    /\ IF dc_rules = <<>>
       THEN /\ pc' = "custom"
            /\ UNCHANGED <<dc_results, toolCalls, exitCode, raised>>
       ELSE /\ dc_results' \in _run_dc_runner(dc_rules)
            /\ toolCalls' = Append(toolCalls, dc_rules)
            /\ pc' = "custom"
            /\ UNCHANGED <<exitCode, raised>>
    /\ UNCHANGED <<ev, outFile, postVars, configFile, dataRepo, lintReport,
                   dc_rules, custom_rules, custom_results, writes, writer>>

\* lines 159-199: the DATA_REPO check and the one call of the DC runner
RunDC ==
    /\ pc = "dc"
    /\ IF dc_rules = <<>>
       THEN /\ pc' = "custom"
            /\ UNCHANGED <<dc_results, toolCalls, exitCode, raised>>
       ELSE IF ~dataRepo
       THEN Exit(2, "") /\ UNCHANGED <<dc_results, toolCalls>>
       ELSE /\ dc_results' \in _run_dc_runner(dc_rules)
            /\ toolCalls' = Append(toolCalls, dc_rules)
            /\ pc' = "custom"
            /\ UNCHANGED <<exitCode, raised>>
    /\ UNCHANGED <<ev, outFile, postVars, configFile, dataRepo, lintReport,
                   dc_rules, custom_rules, custom_results, writes, writer>>

\* line 201: _run_custom_validators; an exception leaves main() at once
RunCustom ==
    /\ pc = "custom"
    /\ LET ret == _run_custom_validators(custom_rules, lintReport)
       IN IF ret.raised # ""
          THEN Exit(1, ret.raised) /\ UNCHANGED custom_results
          ELSE /\ custom_results' = ret.results
               /\ pc' = "write"
               /\ UNCHANGED <<exitCode, raised>>
    /\ UNCHANGED <<ev, outFile, postVars, configFile, dataRepo, lintReport,
                   dc_rules, custom_rules, dc_results, toolCalls, writes, writer>>

\* a merge that puts the local results first
combined_local_first(dc, custom) == custom \o dc

\* line 202: combined = dc_results + custom_results
combined(dc, custom) == dc \o custom

\* lines 202-207: combined is written to the artifact
RunWrite ==
    /\ pc = "write"
    /\ outFile' = ArrayFile(combined(dc_results, custom_results))
    /\ writes' = writes + 1
    /\ pc' = "exit"
    /\ UNCHANGED <<ev, postVars, configFile, dataRepo, lintReport, dc_rules, custom_rules,
                   dc_results, custom_results, exitCode, raised, toolCalls, writer>>

\* lines 209-213
RunExit ==
    /\ pc = "exit"
    /\ Exit(run_validation_exit(dc_rules, dc_results, combined(dc_results, custom_results)), "")
    /\ UNCHANGED <<ev, outFile, postVars, configFile, dataRepo, lintReport, dc_rules,
                   custom_rules, dc_results, custom_results, toolCalls, writes, writer>>

NextRun == RunStart \/ RunDC \/ RunCustom \/ RunWrite \/ RunExit

SpecRun == InitRun /\ [][NextRun]_vars

----------------------------------------------------------------------------
(* The two writers of the artifact, step by step: open(path, "w") truncates *)
(* the file, json.dump then fills it. A process killed in between leaves    *)
(* the file empty or cut short, which does not parse as JSON.               *)

Truncated == OtherFile("invalid")

\* run_validation.py lines 206: open(out_path, "w")
RunOpen ==
    /\ pc = "write"
    /\ writer.state = "idle"
    /\ writer' = [state |-> "open", by |-> "run_validation", old |-> outFile,
                  new |-> ArrayFile(combined(dc_results, custom_results))]
    /\ outFile' = Truncated
    /\ pc' = "writing"
    /\ UNCHANGED <<ev, postVars, configFile, dataRepo, lintReport, dc_rules, custom_rules,
                   dc_results, custom_results, exitCode, raised, toolCalls, writes>>

\* run_validation.py line 207: json.dump(combined, f) and the close
RunDump ==
    /\ pc = "writing"
    /\ writer.state = "open"
    /\ outFile' = writer.new
    /\ writer' = [writer EXCEPT !.state = "idle"]
    /\ writes' = writes + 1
    /\ pc' = "exit"
    /\ UNCHANGED <<ev, postVars, configFile, dataRepo, lintReport, dc_rules, custom_rules,
                   dc_results, custom_results, exitCode, raised, toolCalls>>

\* apply_warn_only.py lines 20-52: a conversion happened, open(path, "w")
ApplyOpen ==
    /\ pc = "done"
    /\ writer.state = "idle"
    /\ \E dataset \in Datasets :
          LET ret == apply_warn_only(outFile, warnFile, dataset)
          IN /\ ret.converted > 0
             /\ writer' = [state |-> "open", by |-> "apply_warn_only", old |-> outFile,
                           new |-> ret.file]
    /\ outFile' = Truncated
    /\ UNCHANGED <<ev, postVars, runVars>>

\* apply_warn_only.py line 53: json.dump(results, f) and the close
ApplyDump ==
    /\ pc = "done"
    /\ writer.state = "open"
    /\ writer.by = "apply_warn_only"
    /\ outFile' = writer.new
    /\ writer' = [writer EXCEPT !.state = "idle"]
    /\ UNCHANGED <<ev, postVars, runVars>>

\* the writing process is killed (signal, power loss) between the two steps
Interrupt ==
    /\ writer.state = "open"
    /\ writer' = [writer EXCEPT !.state = "killed"]
    /\ UNCHANGED <<ev, outFile, postVars, runVars>>

NextCrash ==
    \/ RunStart \/ RunDC \/ RunCustom \/ RunOpen \/ RunDump \/ RunExit
    \/ ApplyOpen \/ ApplyDump \/ Interrupt

SpecCrash == InitRun /\ [][NextCrash]_vars

----------------------------------------------------------------------------
(* Post-processing commands on a persisted artifact *)

InitPost ==
    /\ outFile \in {OtherFile(k) : k \in FileKinds \ {"array"}}
                   \cup {ArrayFile(rs) : rs \in SeqsUpTo(ResultSamples, MaxResults)}
    /\ warnFile \in WarnFiles
    /\ PostIdle
    /\ configFile = [kind |-> "missing", rules |-> <<>>]
    /\ dataRepo = FALSE
    /\ lintReport = [kind |-> "none", counters |-> <<>>]
    /\ pc = "done"
    /\ RunIdle
    /\ EvalIdle

\* python apply_warn_only.py OUT --warn_only_rules W --dataset D [--check_blockers]
ApplyWarnOnlyCmd ==
    \E dataset \in Datasets, check_blockers \in BOOLEAN :
        LET ret == apply_warn_only(outFile, warnFile, dataset)
        IN /\ outFile' = ret.file
           /\ cmd' = [op |-> "apply", dataset |-> dataset, check_blockers |-> check_blockers,
                      outcome |-> ret.outcome, converted |-> ret.converted,
                      exit |-> apply_warn_only_exit(outFile, ret, check_blockers),
                      blockers |-> blockers_report(outFile, ret, check_blockers),
                      first |-> IF cmd.op = "apply" /\ cmd.dataset = dataset /\ cmd.outcome = "ok"
                                THEN cmd.converted ELSE -1,
                      before |-> outFile, wrote |-> apply_warn_only_wrote(ret)]
           /\ UNCHANGED <<ev, warnFile, appends, runVars, writer>>

\* python check_csv_row_count.py --csv C --validation_output OUT [--threshold T]
AppendRowCountCmd ==
    /\ appends < MaxAppends
    /\ \E csv \in CsvInputs, threshold \in Thresholds :
           /\ outFile' = check_csv_row_count_append(outFile, csv, threshold)
           /\ cmd' = [op |-> "append", dataset |-> "", check_blockers |-> FALSE,
                      outcome |-> "ok", converted |-> 0, exit |-> 0,
                      blockers |-> "unchecked", first |-> -1, before |-> outFile,
                      wrote |-> TRUE]
    /\ appends' = appends + 1
    /\ UNCHANGED <<ev, warnFile, runVars, writer>>

NextPost == ApplyWarnOnlyCmd \/ AppendRowCountCmd

SpecPost == InitPost /\ [][NextPost]_vars

----------------------------------------------------------------------------
(* scripts/min_value_check.py *)

KwIncremental == <<"I", "n", "c", "r", "e", "m", "e", "n", "t", "a", "l">>
KwGrowthRate == <<"G", "r", "o", "w", "t", "h", "R", "a", "t", "e">>
KwNet == <<"N", "e", "t">>
KwChange == <<"C", "h", "a", "n", "g", "e">>

NEGATIVE_ALLOWED_KEYWORDS == {KwIncremental, KwGrowthRate, KwNet, KwChange}

\* Python's "kw in text" on strings
contains(text, kw) ==
    \E i \in 1..(Len(text) - Len(kw) + 1) : SubSeq(text, i, i + Len(kw) - 1) = kw

\* StatVar cells of the summary
StatVarCount == <<"C", "o", "u", "n", "t">>
StatVarNetPay == <<"N", "e", "t", "P", "a", "y">>
StatVarInternet == <<"I", "n", "t", "e", "r", "n", "e", "t">>
StatVarNoChange == <<"N", "o", "C", "h", "a", "n", "g", "e">>
StatVars == {StatVarCount, StatVarNetPay, StatVarInternet, StatVarNoChange}

\* a MinValue cell: a number, a blank cell, or text float() rejects
Cell(kind, value) == [kind |-> kind, value |-> value]
CellValues == {-1, 0, 1}
MinValueCells ==
    {Cell("number", v) : v \in CellValues} \cup {Cell("blank", 0), Cell("text", 0)}

SummaryRow(stat_var, cell) == [StatVar |-> stat_var, MinValue |-> cell]
SummaryRows == {SummaryRow(s, c) : s \in StatVars, c \in MinValueCells}

\* the stats summary: no path given, path not a file, or a CSV with its header
\* (has_min_value: the header names a MinValue column) and its rows
Summary(kind, has_min_value, rows) ==
    [kind |-> kind, has_min_value |-> has_min_value, rows |-> rows]
Summaries ==
    {Summary(k, FALSE, <<>>) : k \in {"none", "missing"}}
    \cup {Summary("file", FALSE, rows) : rows \in SeqsUpTo(SummaryRows, 1)}
    \cup {Summary("file", TRUE, rows) : rows \in SeqsUpTo(SummaryRows, MaxRows)}

\* params: "minimum" present or not; numeric: float(params["minimum"]) succeeds
MinParams(has_minimum, numeric, minimum) ==
    [has_minimum |-> has_minimum, numeric |-> numeric, minimum |-> minimum]
MinParamSamples ==
    {MinParams(FALSE, FALSE, 0), MinParams(TRUE, FALSE, 0),
     MinParams(TRUE, TRUE, 0), MinParams(TRUE, TRUE, 1)}

\* lines 24-31: None for a blank or unparsable cell
_parse_min_value(val) ==
    IF val.kind = "number" THEN [none |-> FALSE, value |-> val.value]
    ELSE [none |-> TRUE, value |-> 0]

\* an exemption test that looks at the start of the name only
is_exempt_prefix(stat_var) ==
    \E kw \in NEGATIVE_ALLOWED_KEYWORDS : startswith(stat_var, kw)

\* lines 92-94: any(kw in stat_var_str for kw in NEGATIVE_ALLOWED_KEYWORDS)
is_exempt(stat_var) ==
    \E kw \in NEGATIVE_ALLOWED_KEYWORDS : contains(stat_var, kw)

FailedRow(stat_var, actual, minimum) ==
    [stat_var |-> stat_var, actual_min_value |-> actual, minimum |-> minimum]

\* a loop that counts a blank or unparsable cell as a failure without listing it
RECURSIVE min_value_loop_none_fails(_, _, _)
min_value_loop_none_fails(rows, min_val, acc) ==
    IF rows = <<>> THEN acc
    ELSE LET row == Head(rows)
             min_value == _parse_min_value(row.MinValue)
             counted == [acc EXCEPT !.rows_processed = @ + 1]
         IN IF is_exempt(row.StatVar) THEN min_value_loop_none_fails(Tail(rows), min_val, acc)
            ELSE IF min_value.none
            THEN min_value_loop_none_fails(Tail(rows), min_val,
                     [counted EXCEPT !.rows_failed = @ + 1])
            ELSE IF min_value.value < min_val
            THEN min_value_loop_none_fails(Tail(rows), min_val,
                     [counted EXCEPT !.rows_failed = @ + 1,
                                     !.failed_rows = Append(@, FailedRow(row.StatVar,
                                                                         min_value.value,
                                                                         min_val))])
            ELSE min_value_loop_none_fails(Tail(rows), min_val, counted)

\* lines 91-106: the loop over the rows: [rows_processed, rows_failed, failed_rows]
RECURSIVE min_value_loop(_, _, _)
min_value_loop(rows, min_val, acc) ==
    IF rows = <<>> THEN acc
    ELSE LET row == Head(rows)
             min_value == _parse_min_value(row.MinValue)
             counted == [acc EXCEPT !.rows_processed = @ + 1]
         IN IF is_exempt(row.StatVar) THEN min_value_loop(Tail(rows), min_val, acc)
            ELSE IF min_value.none THEN min_value_loop(Tail(rows), min_val, counted)
            ELSE IF min_value.value < min_val
            THEN min_value_loop(Tail(rows), min_val,
                     [counted EXCEPT !.rows_failed = @ + 1,
                                     !.failed_rows = Append(@, FailedRow(row.StatVar,
                                                                         min_value.value,
                                                                         min_val))])
            ELSE min_value_loop(Tail(rows), min_val, counted)

\* the details object: keys is the set of keys present
MinDetails(keys, failed_rows, rows_processed, rows_succeeded, rows_failed) ==
    [keys |-> keys, failed_rows |-> failed_rows, rows_processed |-> rows_processed,
     rows_succeeded |-> rows_succeeded, rows_failed |-> rows_failed]

NoDetails == MinDetails({}, <<>>, 0, 0, 0)
CountKeys == {"rows_processed", "rows_succeeded", "rows_failed"}

\* an evaluator that looks for the summary before it looks for "minimum"
run_min_value_summary_first(stats_summary, params, rule_id) ==
    IF stats_summary.kind \in {"none", "missing"}
    THEN Result(rule_id, "PASSED", "", MinDetails(CountKeys, <<>>, 0, 0, 0), params)
    ELSE IF ~params.has_minimum
    THEN Result(rule_id, "CONFIG_ERROR", "minimum not specified", NoDetails, params)
    ELSE IF ~stats_summary.has_min_value
    THEN Result(rule_id, "DATA_ERROR", "no MinValue column", NoDetails, params)
    ELSE Result(rule_id, "PASSED", "", MinDetails(CountKeys, <<>>, 0, 0, 0), params)

\* an evaluator that blocks on a value below the minimum
run_min_value_blocking(stats_summary, params, rule_id) ==
    IF ~params.has_minimum
    THEN Result(rule_id, "CONFIG_ERROR", "minimum not specified", NoDetails, params)
    ELSE IF stats_summary.kind \in {"none", "missing"}
    THEN Result(rule_id, "PASSED", "", MinDetails(CountKeys, <<>>, 0, 0, 0), params)
    ELSE IF ~stats_summary.has_min_value
    THEN Result(rule_id, "DATA_ERROR", "no MinValue column", NoDetails, params)
    ELSE LET min_val == IF params.numeric THEN params.minimum ELSE 0
             n == min_value_loop(stats_summary.rows, min_val,
                                 [rows_processed |-> 0, rows_failed |-> 0,
                                  failed_rows |-> <<>>])
         IN Result(rule_id, IF n.rows_failed > 0 THEN "FAILED" ELSE "PASSED", "",
                   MinDetails(CountKeys, <<>>, n.rows_processed,
                              n.rows_processed - n.rows_failed, n.rows_failed), params)

\* lines 34-134: run(stats_summary_path, params, rule_id)
run_min_value(stats_summary, params, rule_id) ==
    IF ~params.has_minimum
    THEN Result(rule_id, "CONFIG_ERROR", "minimum not specified", NoDetails, params)
    ELSE LET min_val == IF params.numeric THEN params.minimum ELSE 0
         IN IF stats_summary.kind \in {"none", "missing"}
            THEN Result(rule_id, "PASSED", "", MinDetails(CountKeys, <<>>, 0, 0, 0), params)
            ELSE IF ~stats_summary.has_min_value
            THEN Result(rule_id, "DATA_ERROR", "no MinValue column", NoDetails, params)
            ELSE LET n == min_value_loop(stats_summary.rows, min_val,
                                         [rows_processed |-> 0, rows_failed |-> 0,
                                          failed_rows |-> <<>>])
                     rows_succeeded == n.rows_processed - n.rows_failed
                 IN IF n.rows_failed > 0
                    THEN Result(rule_id, "WARNING", "below minimum",
                                MinDetails(CountKeys \cup {"failed_rows"}, n.failed_rows,
                                           n.rows_processed, rows_succeeded, n.rows_failed),
                                params)
                    ELSE Result(rule_id, "PASSED", "",
                                MinDetails(CountKeys, <<>>, n.rows_processed,
                                           rows_succeeded, n.rows_failed),
                                params)

----------------------------------------------------------------------------
(* The local evaluators called on inputs of their own *)

KeyInfix == <<"Sanity_", "Existence_FailedDcCall_">>

CounterSamples ==
    {Counter(k, v, TRUE) : k \in {KeyStructural, KeyResolution, KeyInfix}, v \in 0..MaxValue}
    \cup {Counter(KeyStructural, 1, FALSE), Counter(KeyResolution, 1, FALSE)}

\* the counters of a JSON object have distinct keys
CounterSets ==
    {cs \in SeqsUpTo(CounterSamples, MaxCounters) :
        \A i, j \in 1..Len(cs) : i # j => cs[i].key # cs[j].key}

EvalLintReports ==
    {[kind |-> k, counters |-> <<>>] : k \in {"none", "invalid"}}
    \cup {[kind |-> "report", counters |-> cs] : cs \in CounterSets}

EvalLintParams == {Params(FALSE, 0)} \cup {Params(TRUE, t) : t \in 0..MaxThreshold}

LintCall(phase, report, params, exc, results) ==
    [phase |-> phase, kind |-> "lint", report |-> report, params |-> params,
     raised |-> exc, results |-> results]

MinCall(phase, summary, params, results) ==
    [phase |-> phase, kind |-> "min", summary |-> summary, params |-> params,
     raised |-> "", results |-> results]

InitEval ==
    /\ ev \in {LintCall("input", r, p, "", <<>>) : r \in EvalLintReports, p \in EvalLintParams}
              \cup {MinCall("input", s, p, <<>>) : s \in Summaries, p \in MinParamSamples}
    /\ outFile = OtherFile("missing")
    /\ warnFile = [kind |-> "missing", map |-> WarnMap(NotList, NotList)]
    /\ PostIdle
    /\ configFile = [kind |-> "missing", rules |-> <<>>]
    /\ dataRepo = FALSE
    /\ lintReport = [kind |-> "none", counters |-> <<>>]
    /\ pc = "done"
    /\ RunIdle

\* run_validation.py lines 113-126 with one STRUCTURAL_LINT_ERROR_COUNT rule
EvalStructuralLint ==
    /\ ev.phase = "input"
    /\ ev.kind = "lint"
    /\ LET ret == _run_custom_validators(
                      <<Rule(NameA, "STRUCTURAL_LINT_ERROR_COUNT", TRUE, ev.params)>>,
                      ev.report)
       IN ev' = LintCall("done", ev.report, ev.params, ret.raised, ret.results)
    /\ UNCHANGED <<outFile, postVars, runVars, writer>>

\* min_value_check.py lines 147-149: main() calls run and prints the result
EvalMinValue ==
    /\ ev.phase = "input"
    /\ ev.kind = "min"
    /\ ev' = MinCall("done", ev.summary, ev.params,
                     <<run_min_value(ev.summary, ev.params, NameA)>>)
    /\ UNCHANGED <<outFile, postVars, runVars, writer>>

NextEval == EvalStructuralLint \/ EvalMinValue

SpecEval == InitEval /\ [][NextEval]_vars

----------------------------------------------------------------------------
(* scripts/fluctuation_utils.py *)

KeyFluctuation500 == <<"StatsCheck_MaxPercentFluctuationGreaterThan500">>
KeyFluctuation100 == <<"StatsCheck_MaxPercentFluctuationGreaterThan100">>
FLUCTUATION_COUNTER_KEYS == {KeyFluctuation500, KeyFluctuation100}

\* the code point of a character, as Python compares strings
CharCode(c) ==
    CASE c = " " -> 32 [] c = "-" -> 45 [] c = "/" -> 47
      [] c = "0" -> 48 [] c = "1" -> 49 [] c = "2" -> 50 [] c = "3" -> 51
      [] c = "4" -> 52 [] c = "5" -> 53 [] c = "6" -> 54 [] c = "7" -> 55
      [] c = "8" -> 56 [] c = "9" -> 57
      [] c = "D" -> 68 [] c = "M" -> 77 [] c = "P" -> 80 [] c = "W" -> 87
      [] c = "Y" -> 89 [] c = "a" -> 97 [] c = "d" -> 100 [] c = "m" -> 109
      [] c = "n" -> 110 [] c = "p" -> 112 [] c = "y" -> 121
      [] OTHER -> 127

\* a < b on Python strings
RECURSIVE StrLess(_, _)
StrLess(a, b) ==
    IF b = <<>> THEN FALSE
    ELSE IF a = <<>> THEN TRUE
    ELSE IF CharCode(Head(a)) # CharCode(Head(b)) THEN CharCode(Head(a)) < CharCode(Head(b))
    ELSE StrLess(Tail(a), Tail(b))

IsDigit(c) == c \in {"0", "1", "2", "3", "4", "5", "6", "7", "8", "9"}

DigitVal(c) == CharCode(c) - 48

\* int() of a run of digits
RECURSIVE DigitsVal(_)
DigitsVal(s) ==
    IF s = <<>> THEN 0 ELSE 10 * DigitsVal(SubSeq(s, 1, Len(s) - 1)) + DigitVal(s[Len(s)])

AllDigits(s) == \A i \in 1..Len(s) : IsDigit(s[i])

IsLeap(y) == (y % 4 = 0 /\ y % 100 # 0) \/ y % 400 = 0

DaysInMonth(y, m) ==
    IF m = 2 THEN (IF IsLeap(y) THEN 29 ELSE 28)
    ELSE IF m \in {4, 6, 9, 11} THEN 30 ELSE 31

RECURSIVE DaysBeforeMonth(_, _)
DaysBeforeMonth(y, m) ==
    IF m <= 1 THEN 0 ELSE DaysBeforeMonth(y, m - 1) + DaysInMonth(y, m - 1)

\* the ordinal of a date; the difference of two ordinals is timedelta.days
DayNumber(y, m, d) ==
    365 * (y - 1) + ((y - 1) \div 4) - ((y - 1) \div 100) + ((y - 1) \div 400)
    + DaysBeforeMonth(y, m) + d

NoDate == [none |-> TRUE, day |-> 0]

\* datetime.strptime(t, "%Y"), "%Y-%m" and "%Y-%m-%d" on a slice of that length
strptime_y(t) ==
    IF AllDigits(t) /\ DigitsVal(t) >= 1
    THEN [none |-> FALSE, day |-> DayNumber(DigitsVal(t), 1, 1)]
    ELSE NoDate

strptime_ym(t) ==
    LET y == DigitsVal(SubSeq(t, 1, 4))
        m == DigitsVal(SubSeq(t, 6, 7))
    IN IF /\ AllDigits(SubSeq(t, 1, 4)) /\ t[5] = "-" /\ AllDigits(SubSeq(t, 6, 7))
          /\ y >= 1 /\ m \in 1..12
       THEN [none |-> FALSE, day |-> DayNumber(y, m, 1)]
       ELSE NoDate

strptime_ymd(t) ==
    LET y == DigitsVal(SubSeq(t, 1, 4))
        m == DigitsVal(SubSeq(t, 6, 7))
        d == DigitsVal(SubSeq(t, 9, 10))
    IN IF /\ AllDigits(SubSeq(t, 1, 4)) /\ t[5] = "-" /\ AllDigits(SubSeq(t, 6, 7))
          /\ t[8] = "-" /\ AllDigits(SubSeq(t, 9, 10))
          /\ y >= 1 /\ m \in 1..12 /\ d >= 1 /\ d <= DaysInMonth(y, m)
       THEN [none |-> FALSE, day |-> DayNumber(y, m, d)]
       ELSE NoDate

\* lines 73-84: the first of the three formats that parses a prefix of s
_parse_date(raw) ==
    IF raw = Null \/ raw = <<>> THEN NoDate
    ELSE LET s == strip(raw)
             ymd == IF Len(s) >= 10 THEN strptime_ymd(SubSeq(s, 1, 10)) ELSE NoDate
             ym == IF Len(s) >= 7 THEN strptime_ym(SubSeq(s, 1, 7)) ELSE NoDate
             y == IF Len(s) >= 4 THEN strptime_y(SubSeq(s, 1, 4)) ELSE NoDate
         IN IF ~ymd.none THEN ymd ELSE IF ~ym.none THEN ym ELSE y

upper_char(c) ==
    IF c = "p" THEN "P" ELSE IF c = "y" THEN "Y" ELSE IF c = "m" THEN "M"
    ELSE IF c = "d" THEN "D" ELSE c

upper(s) == [i \in 1..Len(s) |-> upper_char(s[i])]

\* the length of the run of digits of s that starts at position i
RECURSIVE DigitRun(_, _)
DigitRun(s, i) == IF i <= Len(s) /\ IsDigit(s[i]) THEN 1 + DigitRun(s, i + 1) ELSE 0

\* one optional group (\d+)L of the pattern at position i: [matched, value, next]
PeriodGroup(s, i, letter) ==
    LET n == DigitRun(s, i)
    IN IF n >= 1 /\ i + n <= Len(s) /\ s[i + n] = letter
       THEN [matched |-> TRUE, value |-> DigitsVal(SubSeq(s, i, i + n - 1)), next |-> i + n + 1]
       ELSE [matched |-> FALSE, value |-> 0, next |-> i]

NoDays == [none |-> TRUE, days |-> 0]

\* a period conversion that counts a year as 360 days
_observation_period_days_360(observation_period) ==
    IF observation_period = <<>> THEN NoDays
    ELSE LET s == upper(strip(observation_period))
         IN IF s = <<>> \/ s[1] # "P" THEN NoDays
            ELSE LET y == PeriodGroup(s, 2, "Y")
                     mo == PeriodGroup(s, y.next, "M")
                     d == PeriodGroup(s, mo.next, "D")
                     days == y.value * 360 + mo.value * 30 + d.value
                 IN IF days > 0 THEN [none |-> FALSE, days |-> days] ELSE NoDays

\* lines 87-104: P<n>Y<n>M<n>D to days, None when nothing positive is read
_observation_period_days(observation_period) ==
    IF observation_period = <<>> THEN NoDays
    ELSE LET s == upper(strip(observation_period))
         IN IF s = <<>> \/ s[1] # "P" THEN NoDays
            ELSE LET y == PeriodGroup(s, 2, "Y")
                     mo == PeriodGroup(s, y.next, "M")
                     d == PeriodGroup(s, mo.next, "D")
                     days == y.value * 365 + mo.value * 30 + d.value
                 IN IF days > 0 THEN [none |-> FALSE, days |-> days] ELSE NoDays

\* a value of a problem point, in tenths: a number, no value, or text that
\* float() rejects
Val(kind, tenths) == [kind |-> kind, tenths |-> tenths]
NoVal == Val("none", 0)

\* lines 32-41: float or None
_numeric(v) == IF v.kind = "number" THEN v ELSE NoVal

\* int(x / y) for y > 0: truncation toward zero
TruncDiv(x, y) == IF x >= 0 THEN x \div y ELSE -((-x) \div y)

Abs(x) == IF x < 0 THEN -x ELSE x

\* a point after normalisation: {date, value}
Point(date, value) == [date |-> date, value |-> value]

RECURSIVE SumSeq(_)
SumSeq(s) == IF s = <<>> THEN 0 ELSE Head(s) + SumSeq(Tail(s))

\* lines 158-163: the gaps of the consecutive pairs whose two dates parse
RECURSIVE consecutive_gaps(_)
consecutive_gaps(points) ==
    IF Len(points) < 2 THEN <<>>
    ELSE LET a == _parse_date(points[1].date)
             b == _parse_date(points[2].date)
             rest == consecutive_gaps(Tail(points))
         IN IF ~a.none /\ ~b.none THEN <<b.day - a.day>> \o rest ELSE rest

\* percent_change as the exact fraction num / den, or null
Percent(null, num, den) == [null |-> null, num |-> num, den |-> den]
NoPercent == Percent(TRUE, 0, 1)

\* a percent change that divides by the previous value itself
percent_change_of_signed(prev_num, curr_num) ==
    IF prev_num.kind = "number" /\ curr_num.kind = "number" /\ prev_num.tenths # 0
    THEN IF prev_num.tenths > 0
         THEN Percent(FALSE, (curr_num.tenths - prev_num.tenths) * 100, prev_num.tenths)
         ELSE Percent(FALSE, (prev_num.tenths - curr_num.tenths) * 100, -prev_num.tenths)
    ELSE NoPercent

\* lines 124-129; at a resolution of one tenth abs(prev_num) < 1e-9 is prev_num = 0
percent_change_of(prev_num, curr_num) ==
    IF prev_num.kind = "number" /\ curr_num.kind = "number" /\ prev_num.tenths # 0
    THEN Percent(FALSE, (curr_num.tenths - prev_num.tenths) * 100, Abs(prev_num.tenths))
    ELSE NoPercent

\* a typical gap that is the largest of the consecutive gaps
typical_gap_max(gaps) ==
    LET m == CHOOSE g \in SeqRange(gaps) : \A h \in SeqRange(gaps) : h <= g
    IN IF m > 1 THEN m ELSE 1

\* line 165: typical = max(1, int(sum(gaps) / len(gaps)))
typical_gap(gaps) ==
    LET mean == TruncDiv(SumSeq(gaps), Len(gaps))
    IN IF mean > 1 THEN mean ELSE 1

\* lines 149-166: "null", "true" or "false"
missing_intermediate_periods_of(previous_point, current_point, observation_period, all_sorted_points) ==
    LET prev_date == _parse_date(previous_point.date)
        curr_date == _parse_date(current_point.date)
        gap_days == curr_date.day - prev_date.day
        period_days == _observation_period_days(observation_period)
        gaps == consecutive_gaps(all_sorted_points)
    IN IF prev_date.none \/ curr_date.none THEN "null"
       ELSE IF ~period_days.none /\ period_days.days > 0
       THEN (IF gap_days > period_days.days THEN "true" ELSE "false")
       ELSE IF Len(all_sorted_points) >= 3 /\ gaps # <<>>
       THEN (IF gap_days > typical_gap(gaps) THEN "true" ELSE "false")
       ELSE "null"

\* lines 107-177, without the scaling and unit signals
_compute_technical_signals(previous_point, current_point, observation_period, all_sorted_points) ==
    LET prev_num == _numeric(previous_point.value)
        curr_num == _numeric(current_point.value)
    IN [present |-> TRUE,
        previous_value |-> prev_num,
        current_value |-> curr_num,
        percent_change |-> percent_change_of(prev_num, curr_num),
        previous_near_zero |-> prev_num.kind = "number" /\ Abs(prev_num.tenths) < 10,
        first_valid_after_placeholder |->
            /\ prev_num.kind = "number" /\ curr_num.kind = "number"
            /\ prev_num.tenths <= 0 /\ curr_num.tenths > 0,
        missing_intermediate_periods |->
            missing_intermediate_periods_of(previous_point, current_point,
                                            observation_period, all_sorted_points)]

\* technical_signals = None
NoSignals ==
    [present |-> FALSE, previous_value |-> NoVal, current_value |-> NoVal,
     percent_change |-> NoPercent, previous_near_zero |-> FALSE,
     first_valid_after_placeholder |-> FALSE, missing_intermediate_periods |-> "null"]

\* sorted(): one element put into an ascending list, after its equals (stable)
RECURSIVE insert_by_date(_, _)
insert_by_date(sorted, p) ==
    IF sorted = <<>> THEN <<p>>
    ELSE IF StrLess(p.date, Head(sorted).date) THEN <<p>> \o sorted
    ELSE <<Head(sorted)>> \o insert_by_date(Tail(sorted), p)

RECURSIVE sorted_by_date(_)
sorted_by_date(points) ==
    IF points = <<>> THEN <<>>
    ELSE insert_by_date(sorted_by_date(SubSeq(points, 1, Len(points) - 1)),
                        points[Len(points)])

\* lines 223-224: prev_pt = point_list[-2], curr_pt = point_list[-1]
signal_pair(point_list) == <<point_list[Len(point_list) - 1], point_list[Len(point_list)]>>

\* a list of points that keeps the report's order
dated_points_unsorted(points) ==
    SelectSeq(points, LAMBDA p : p.date # Null /\ p.date # <<>>)

\* lines 199-202: the points with a date, ascending by the raw date string
dated_points(points) ==
    sorted_by_date(SelectSeq(points, LAMBDA p : p.date # Null /\ p.date # <<>>))

\* lines 191-252 for one counter of one statsCheckSummary item: the samples
extract_counter_samples(observation_period, counter) ==
    IF counter.counterKey \notin FLUCTUATION_COUNTER_KEYS THEN <<>>
    ELSE IF counter.problemPoints = <<>> THEN <<>>
    ELSE LET point_list == dated_points(counter.problemPoints)
         IN <<[observationPeriod |-> observation_period,
               counterKey |-> counter.counterKey,
               problemPoints |-> point_list,
               technical_signals |->
                   IF Len(point_list) < 2 THEN NoSignals
                   ELSE _compute_technical_signals(signal_pair(point_list)[1],
                                                   signal_pair(point_list)[2],
                                                   observation_period, point_list)]>>

----------------------------------------------------------------------------
(* extract_fluctuation_samples called on a report of its own *)

Date20200101 == <<"2", "0", "2", "0", "-", "0", "1", "-", "0", "1">>
Date20200102 == <<"2", "0", "2", "0", "-", "0", "1", "-", "0", "2">>
Date20210101 == <<"2", "0", "2", "1", "-", "0", "1", "-", "0", "1">>
Date20220101 == <<"2", "0", "2", "2", "-", "0", "1", "-", "0", "1">>
Date2020 == <<"2", "0", "2", "0">>
Date202013 == <<"2", "0", "2", "0", "-", "1", "3">>
DateText == <<"n", "/", "a">>

PointSamples ==
    {Point(Date20200101, Val("number", 1000)),
     Point(Date20200102, Val("number", 0)),
     Point(Date20210101, Val("number", 1500)),
     Point(Date20220101, Val("number", 250)),
     Point(Date2020, Val("number", 5)),
     Point(Date202013, Val("number", -500)),
     Point(Date20210101, Val("text", 0)),
     Point(DateText, Val("number", 1000)),
     Point(<<>>, Val("number", 1500)),
     Point(Null, Val("none", 0))}

PeriodP1Y == <<"P", "1", "Y">>
PeriodLowerP1Y == <<" ", "p", "1", "y">>
PeriodP1D == <<"P", "1", "D">>
PeriodP1Y1M == <<"P", "1", "Y", "1", "M">>
PeriodP1W == <<"P", "1", "W">>
ObservationPeriods == {<<>>, PeriodP1Y, PeriodLowerP1Y, PeriodP1D, PeriodP1Y1M, PeriodP1W}

FluctCounter(counterKey, problemPoints) ==
    [counterKey |-> counterKey, problemPoints |-> problemPoints]

FluctCall(phase, observation_period, counter, samples) ==
    [phase |-> phase, kind |-> "fluct", observationPeriod |-> observation_period,
     counter |-> counter, samples |-> samples]

InitFluct ==
    /\ ev \in {FluctCall("input", op, FluctCounter(k, ps), <<>>) :
                  op \in ObservationPeriods,
                  k \in {KeyFluctuation500, KeyStructural},
                  ps \in SeqsUpTo(PointSamples, MaxPoints)}
    /\ outFile = OtherFile("missing")
    /\ warnFile = [kind |-> "missing", map |-> WarnMap(NotList, NotList)]
    /\ PostIdle
    /\ configFile = [kind |-> "missing", rules |-> <<>>]
    /\ dataRepo = FALSE
    /\ lintReport = [kind |-> "none", counters |-> <<>>]
    /\ pc = "done"
    /\ RunIdle

\* extract_fluctuation_samples(report) on a report with one item and one counter
ExtractFluctuationSamples ==
    /\ ev.phase = "input"
    /\ ev.kind = "fluct"
    /\ ev' = FluctCall("done", ev.observationPeriod, ev.counter,
                       extract_counter_samples(ev.observationPeriod, ev.counter))
    /\ UNCHANGED <<outFile, postVars, runVars, writer>>

NextFluct == ExtractFluctuationSamples

SpecFluct == InitFluct /\ [][NextFluct]_vars

----------------------------------------------------------------------------
(* scripts/validate_config_template.py *)

LowerLetters ==
    {"a", "b", "c", "d", "e", "f", "g", "h", "i", "j", "k", "l", "m",
     "n", "o", "p", "q", "r", "s", "t", "u", "v", "w", "x", "y", "z"}

\* re.match(RULE_ID_PATTERN, rv) with RULE_ID_PATTERN = ^[a-z][a-z0-9_]*$
matches_rule_id_pattern(rv) ==
    /\ Len(rv) >= 1
    /\ rv[1] \in LowerLetters
    /\ \A i \in 2..Len(rv) : rv[i] \in LowerLetters \/ IsDigit(rv[i]) \/ rv[i] = "_"

\* a rule of the config under validation: a JSON object or not; "rule_id"
\* present or not, a string (a character sequence) or another JSON value (Null);
\* "description" present or not; the other required keys are present and well typed
ConfigRule(isDict, has_rule_id, rule_id, has_description) ==
    [isDict |-> isDict, has_rule_id |-> has_rule_id, rule_id |-> rule_id,
     has_description |-> has_description]

RuleIdA1 == <<"a", "_", "1">>
RuleIdUpper == <<"A">>
RuleIdBlank == <<" ">>

ConfigRuleSamples ==
    {ConfigRule(TRUE, TRUE, id, d) :
         id \in {NameA, NameB, RuleIdA1, RuleIdUpper, RuleIdBlank, Null}, d \in BOOLEAN}
    \cup {ConfigRule(TRUE, FALSE, Null, TRUE), ConfigRule(FALSE, FALSE, Null, FALSE)}

\* lines 58-67: the errors of one rule's rule_id and the ids seen after it
validate_rule_id(rv, seen_rule_ids) ==
    IF rv = Null \/ strip(rv) = <<>>
    THEN [errors |-> <<"rule_id must be a non-empty string">>, seen |-> seen_rule_ids]
    ELSE IF ~matches_rule_id_pattern(rv)
    THEN [errors |-> <<"rule_id should be snake_case">>, seen |-> seen_rule_ids]
    ELSE IF rv \in seen_rule_ids
    THEN [errors |-> <<"duplicate rule_id">>, seen |-> seen_rule_ids]
    ELSE [errors |-> <<>>, seen |-> seen_rule_ids \cup {rv}]

\* lines 51-86: the errors of one rule
validate_rule(rule, seen_rule_ids) ==
    IF ~rule.isDict THEN [errors |-> <<"rules[i] must be an object">>, seen |-> seen_rule_ids]
    ELSE LET missing == (IF rule.has_rule_id THEN <<>>
                         ELSE <<"missing required key 'rule_id'">>)
                        \o (IF rule.has_description THEN <<>>
                            ELSE <<"missing required key 'description'">>)
             id == IF rule.has_rule_id THEN validate_rule_id(rule.rule_id, seen_rule_ids)
                   ELSE [errors |-> <<>>, seen |-> seen_rule_ids]
         IN [errors |-> missing \o id.errors, seen |-> id.seen]

\* a loop over the rules that forgets the ids it has seen
RECURSIVE validate_rules_forgetful(_, _)
validate_rules_forgetful(rules, seen_rule_ids) ==
    IF rules = <<>> THEN <<>>
    ELSE validate_rule(Head(rules), {}).errors \o validate_rules_forgetful(Tail(rules), {})

\* lines 49-86: the loop over config["rules"]
RECURSIVE validate_rules(_, _)
validate_rules(rules, seen_rule_ids) ==
    IF rules = <<>> THEN <<>>
    ELSE LET r == validate_rule(Head(rules), seen_rule_ids)
         IN r.errors \o validate_rules(Tail(rules), r.seen)

\* lines 28-91: the list of errors; kind is what the file holds
_validate_config(config) ==
    IF config.kind = "nonobject" THEN <<"root must be a JSON object">>
    ELSE IF config.kind = "norules" THEN <<"missing required key 'rules'">>
    ELSE IF config.kind = "rulesnotarray" THEN <<"'rules' must be an array">>
    ELSE validate_rules(config.rules, {})

ValidatedConfigs ==
    {[kind |-> k, rules |-> <<>>] : k \in {"nonobject", "norules", "rulesnotarray"}}
    \cup {[kind |-> "rules", rules |-> rs] : rs \in SeqsUpTo(ConfigRuleSamples, MaxConfigRules)}

ConfigCall(phase, config, errors, exit) ==
    [phase |-> phase, kind |-> "config", config |-> config, errors |-> errors, exit |-> exit]

InitConfig ==
    /\ ev \in {ConfigCall("input", c, <<>>, -1) : c \in ValidatedConfigs}
    /\ outFile = OtherFile("missing")
    /\ warnFile = [kind |-> "missing", map |-> WarnMap(NotList, NotList)]
    /\ PostIdle
    /\ configFile = [kind |-> "missing", rules |-> <<>>]
    /\ dataRepo = FALSE
    /\ lintReport = [kind |-> "none", counters |-> <<>>]
    /\ pc = "done"
    /\ RunIdle

\* validate_config_template.py main(): exit 1 with the errors, 0 without
ValidateConfig ==
    /\ ev.phase = "input"
    /\ ev.kind = "config"
    /\ LET errors == _validate_config(ev.config)
       IN ev' = ConfigCall("done", ev.config, errors, IF errors # <<>> THEN 1 ELSE 0)
    /\ UNCHANGED <<outFile, postVars, runVars, writer>>

NextConfig == ValidateConfig

SpecConfig == InitConfig /\ [][NextConfig]_vars

----------------------------------------------------------------------------
(* ui/services/rule_samples.py *)

NameCheckMinValue == <<"check_min_value">>
NameCheckUnitConsistency == <<"check_unit_consistency">>
NameCheckScalingFactor == <<"check_scaling_factor_consistency">>
NameCheckStructuralLint == <<"check_structural_lint_error_count">>

TextMissing == <<"(missing)">>
TextDash == <<"EM DASH">>    \* the one-character text U+2014

RECURSIVE rstrip_bracket(_)
rstrip_bracket(s) ==
    IF s = <<>> THEN s
    ELSE IF s[Len(s)] = "]" THEN rstrip_bracket(SubSeq(s, 1, Len(s) - 1)) ELSE s

\* str.split(","): the parts between the commas, part being the one in progress
RECURSIVE split_comma(_, _)
split_comma(s, part) ==
    IF s = <<>> THEN <<part>>
    ELSE IF Head(s) = "," THEN <<part>> \o split_comma(Tail(s), <<>>)
    ELSE split_comma(Tail(s), Append(part, Head(s)))

RECURSIVE join_comma(_)
join_comma(parts) ==
    IF Len(parts) = 1 THEN parts[1]
    ELSE parts[1] \o <<",", " ">> \o join_comma(Tail(parts))

NonEmptyText(t) == t # <<>>

\* lines 62-76: raw is None or text
_format_unit_display(raw) ==
    IF raw = Null THEN TextMissing
    ELSE LET s == strip(raw)
         IN IF s = <<>> \/ s = TextDash \/ s = <<"[", "]">> THEN TextMissing
            ELSE IF Head(s) = "["
            THEN LET inner == strip(rstrip_bracket(Tail(s)))
                     split == split_comma(inner, <<>>)
                     parts == SelectSeq([i \in 1..Len(split) |-> strip(split[i])],
                                        NonEmptyText)
                 IN IF parts = <<>> THEN TextMissing ELSE join_comma(parts)
            ELSE s

\* details of a unit-consistency result and of a scaling-factor result
UnitDetails(units) == [keys |-> {"units"}, units |-> units]
ScalingRow(stat_var, scaling_factors) ==
    [StatVar |-> stat_var, ScalingFactors |-> scaling_factors]
ScalingDetails(failing_rows) == [keys |-> {"failing_rows"}, failing_rows |-> failing_rows]

\* the "value" of a sample: None, a number or text
NoneValue == [kind |-> "none", number |-> 0, text |-> <<>>]
NumberValue(n) == [kind |-> "number", number |-> n, text |-> <<>>]
TextValue(t) == [kind |-> "text", number |-> 0, text |-> t]

\* the "expected" of a sample: text, followed by the minimum where there is one
Expected(text, minimum) == [text |-> text, minimum |-> minimum]

RuleSample(statVar, value, rule, expected, message) ==
    [statVar |-> statVar, location |-> Null, date |-> Null, value |-> value,
     rule |-> rule, expected |-> expected, sourceRow |-> Null, message |-> message]

\* line 198: details.get("failed_rows") or []
details_failed_rows(details) ==
    IF "failed_rows" \in details.keys THEN details.failed_rows ELSE <<>>

\* line 231: details.get("failing_rows") or []
details_failing_rows(details) ==
    IF "failing_rows" \in details.keys THEN details.failing_rows ELSE <<>>

\* line 217: details.get("units") or None (the results here carry no
\* "unit_values" and no "units_seen")
details_units(details) ==
    IF "units" \in details.keys /\ details.units # <<>> THEN details.units ELSE Null

\* lines 199-200: f">= {minimum}" if minimum is not None else ">= 0"
expected_minimum(params) ==
    IF params.has_minimum THEN Expected(">= ", NumberValue(params.minimum))
    ELSE Expected(">= 0", NoneValue)

\* a sample for every result that did not pass
samples_of_not_passed(r) ==
    IF r.status = "PASSED" THEN <<>>
    ELSE LET rule == IF r.validation_name = Null THEN <<>> ELSE r.validation_name
         IN IF rule = NameCheckMinValue
            THEN LET failed_rows == details_failed_rows(r.details)
                 IN [i \in 1..Len(failed_rows) |->
                        RuleSample(failed_rows[i].stat_var,
                                   NumberValue(failed_rows[i].actual_min_value), rule,
                                   expected_minimum(r.validation_params), r.message)]
            ELSE <<RuleSample(Null, NoneValue, rule, Expected("", NoneValue), r.message)>>

\* lines 190-273: the samples of one result (the body of the loop)
samples_of(r) ==
    IF r.status # "FAILED" THEN <<>>
    ELSE LET rule == IF r.validation_name = Null THEN <<>> ELSE r.validation_name
         IN IF rule = NameCheckMinValue
            THEN LET failed_rows == details_failed_rows(r.details)
                 IN [i \in 1..Len(failed_rows) |->
                        RuleSample(failed_rows[i].stat_var,
                                   NumberValue(failed_rows[i].actual_min_value), rule,
                                   expected_minimum(r.validation_params), r.message)]
            ELSE IF rule = NameCheckUnitConsistency
            THEN <<RuleSample(Null,
                              TextValue(_format_unit_display(details_units(r.details))),
                              rule,
                              Expected("consistent units (one unit per StatVar)", NoneValue),
                              r.message)>>
            ELSE IF rule = NameCheckScalingFactor
            THEN LET failing_rows == details_failing_rows(r.details)
                 IN [i \in 1..Len(failing_rows) |->
                        RuleSample(failing_rows[i].StatVar,
                                   TextValue(failing_rows[i].ScalingFactors), rule,
                                   Expected("consistent scaling factor", NoneValue),
                                   r.message)]
            ELSE IF rule = NameCheckStructuralLint
            THEN <<RuleSample(Null, NoneValue, rule,
                              Expected("0 structural lint errors", NoneValue), r.message)>>
            ELSE <<RuleSample(Null, NoneValue, rule, Expected("", NoneValue), r.message)>>

RECURSIVE extend_samples(_)
extend_samples(results) ==
    IF results = <<>> THEN <<>>
    ELSE samples_of(Head(results)) \o extend_samples(Tail(results))

\* lines 186-274: r.get on an element that is not an object raises AttributeError
extract_rule_failure_samples(results) ==
    IF \E i \in 1..Len(results) : ~results[i].isDict
    THEN [raised |-> "AttributeError", samples |-> <<>>]
    ELSE [raised |-> "", samples |-> extend_samples(results)]

FailedRowSamples ==
    {<<>>, <<FailedRow(StatVarCount, -1, 0)>>,
     <<FailedRow(StatVarCount, -1, 0), FailedRow(StatVarNoChange, -1, 0)>>}

\* what the local min-value evaluator reports for one value below the minimum
EvaluatorWarning ==
    run_min_value(Summary("file", TRUE, <<SummaryRow(StatVarCount, Cell("number", -1))>>),
                  MinParams(TRUE, TRUE, 0), NameCheckMinValue)

\* a FAILED min-value result after the warn-only conversion
ConvertedWarning ==
    convert_result(Result(NameCheckMinValue, "FAILED", "msg",
                          MinDetails({"failed_rows"}, <<FailedRow(StatVarNoChange, 0, 1)>>,
                                     0, 0, 0),
                          MinParams(TRUE, TRUE, 1)),
                   {NameCheckMinValue})

UnitTexts == {<<>>, <<"[", "k", "g", ",", " ", "g", "]">>}

NoParams == MinParams(FALSE, FALSE, 0)

SampledResults ==
    {Result(NameCheckMinValue, s, "msg",
            MinDetails(CountKeys \cup {"failed_rows"}, rows, 0, 0, 0),
            MinParams(TRUE, TRUE, 0)) : s \in {"FAILED", "WARNING"}, rows \in FailedRowSamples}
    \cup {Result(NameCheckMinValue, "FAILED", "msg", NoDetails, NoParams),
          EvaluatorWarning, ConvertedWarning}
    \cup {Result(NameCheckUnitConsistency, "FAILED", "msg", UnitDetails(u), NoParams) :
             u \in UnitTexts}
    \cup {Result(NameCheckUnitConsistency, "PASSED", "", NoDetails, NoParams)}
    \cup {Result(NameCheckScalingFactor, "FAILED", "msg", ScalingDetails(rows), NoParams) :
             rows \in {<<>>, <<ScalingRow(StatVarCount, <<"1">>),
                                ScalingRow(StatVarCount, <<"2">>)>>}}
    \cup {Result(NameCheckStructuralLint, s, "msg", NoDetails, NoParams) :
             s \in {"FAILED", "WARNING"}}
    \cup {Result(n, "FAILED", "msg", NoDetails, NoParams) : n \in {NameA, Null}}
    \cup {Result(NameA, s, "msg", NoDetails, NoParams) : s \in {"CONFIG_ERROR", "DATA_ERROR"}}
    \cup {NonDict}

SamplesCall(phase, results, exc, samples) ==
    [phase |-> phase, kind |-> "samples", results |-> results, raised |-> exc,
     samples |-> samples]

----------------------------------------------------------------------------
(* ui/services/review_summary.py and scripts/generate_html_report.py: the
   overall outcome each of them shows for the artifact *)

\* len([r for r in results if r.get("status") == status])
count_status(results, status) ==
    Cardinality({i \in 1..Len(results) : results[i].status = status})

\* the review summary's "overall": warnings is the n of "PASS (with n warnings)"
SummaryOverall(text, warnings) == [text |-> text, warnings |-> warnings]

SummaryReturn(returned, overall) == [returned |-> returned, overall |-> overall]

\* a summary that fails on a warning as well
build_review_summary_warnings_fail(file) ==
    IF file.kind \in {"missing", "invalid"} THEN SummaryReturn("None", SummaryOverall("", 0))
    ELSE IF \E i \in 1..Len(file.results) : ~file.results[i].isDict
    THEN SummaryReturn("AttributeError", SummaryOverall("", 0))
    ELSE IF count_status(file.results, "FAILED") + count_status(file.results, "WARNING") > 0
    THEN SummaryReturn("summary", SummaryOverall("FAIL", 0))
    ELSE SummaryReturn("summary", SummaryOverall("PASS", 0))

\* review_summary.py lines 57-122, for an artifact that is missing, not JSON
\* or an array: None without the artifact, AttributeError from r.get on an
\* element that is not an object
build_review_summary(file) ==
    IF file.kind \in {"missing", "invalid"} THEN SummaryReturn("None", SummaryOverall("", 0))
    ELSE IF \E i \in 1..Len(file.results) : ~file.results[i].isDict
    THEN SummaryReturn("AttributeError", SummaryOverall("", 0))
    ELSE LET n_blockers == count_status(file.results, "FAILED")
             n_warnings == count_status(file.results, "WARNING")
         IN IF n_blockers > 0 THEN SummaryReturn("summary", SummaryOverall("FAIL", 0))
            ELSE IF n_warnings > 0
            THEN SummaryReturn("summary", SummaryOverall("PASS (with n warnings)", n_warnings))
            ELSE SummaryReturn("summary", SummaryOverall("PASS", 0))

Overrides == {"None", "fail", "pass"}

HtmlReturn(returned, overall, overall_class, overall_warning_badge) ==
    [returned |-> returned, overall |-> overall, overall_class |-> overall_class,
     overall_warning_badge |-> overall_warning_badge]

\* generate_html_report.py lines 1001-1066, for an artifact that is missing,
\* not JSON or an array: overall_warning_badge is the n of "n warnings", 0
\* for no badge
generate_html(file, overall_override) ==
    IF file.kind \in {"missing", "invalid"} THEN HtmlReturn("False", "", "", 0)
    ELSE IF \E i \in 1..Len(file.results) : ~file.results[i].isDict
    THEN HtmlReturn("AttributeError", "", "", 0)
    ELSE LET n_blockers == count_status(file.results, "FAILED")
             n_warnings == count_status(file.results, "WARNING")
         IN IF overall_override = "fail" THEN HtmlReturn("True", "FAIL", "fail", 0)
            ELSE IF n_blockers > 0 THEN HtmlReturn("True", "FAIL", "fail", 0)
            ELSE IF n_warnings > 0 THEN HtmlReturn("True", "PASS", "pass", n_warnings)
            ELSE HtmlReturn("True", "PASS", "pass", 0)

DecidedFiles ==
    {OtherFile(k) : k \in {"missing", "invalid"}}
    \cup {ArrayFile(rs) : rs \in SeqsUpTo(ResultSamples, MaxResults)}

SummaryPending == SummaryReturn("pending", SummaryOverall("", 0))
HtmlPending == HtmlReturn("pending", "", "", 0)

\* the three deciders called on one artifact
DecideCall(file, overall_override, blockers, summary, html) ==
    [phase |-> IF blockers = "pending" \/ summary = SummaryPending \/ html = HtmlPending
               THEN "input" ELSE "done",
     kind |-> "decide", file |-> file, overall_override |-> overall_override,
     blockers |-> blockers, summary |-> summary, html |-> html]

InitReport ==
    /\ ev \in {SamplesCall("input", rs, "", <<>>) :
                  rs \in SeqsUpTo(SampledResults, MaxResults)}
              \cup {DecideCall(f, o, "pending", SummaryPending, HtmlPending) :
                       f \in DecidedFiles, o \in Overrides}
    /\ outFile = OtherFile("missing")
    /\ warnFile = [kind |-> "missing", map |-> WarnMap(NotList, NotList)]
    /\ PostIdle
    /\ configFile = [kind |-> "missing", rules |-> <<>>]
    /\ dataRepo = FALSE
    /\ lintReport = [kind |-> "none", counters |-> <<>>]
    /\ pc = "done"
    /\ RunIdle

\* review_summary.py line 104
ExtractRuleFailureSamples ==
    /\ ev.phase = "input"
    /\ ev.kind = "samples"
    /\ LET ret == extract_rule_failure_samples(ev.results)
       IN ev' = SamplesCall("done", ev.results, ret.raised, ret.samples)
    /\ UNCHANGED <<outFile, postVars, runVars, writer>>

\* apply_warn_only.py main(): has_blockers on the artifact
HasBlockers ==
    /\ ev.kind = "decide"
    /\ ev.blockers = "pending"
    /\ ev' = DecideCall(ev.file, ev.overall_override,
                        IF has_blockers(ev.file) THEN "True" ELSE "False",
                        ev.summary, ev.html)
    /\ UNCHANGED <<outFile, postVars, runVars, writer>>

BuildReviewSummary ==
    /\ ev.kind = "decide"
    /\ ev.summary = SummaryPending
    /\ ev' = DecideCall(ev.file, ev.overall_override, ev.blockers,
                        build_review_summary(ev.file), ev.html)
    /\ UNCHANGED <<outFile, postVars, runVars, writer>>

\* generate_html_report.py main()
GenerateHtml ==
    /\ ev.kind = "decide"
    /\ ev.html = HtmlPending
    /\ ev' = DecideCall(ev.file, ev.overall_override, ev.blockers, ev.summary,
                        generate_html(ev.file, ev.overall_override))
    /\ UNCHANGED <<outFile, postVars, runVars, writer>>

NextReport == ExtractRuleFailureSamples \/ HasBlockers \/ BuildReviewSummary \/ GenerateHtml

SpecReport == InitReport /\ [][NextReport]_vars

----------------------------------------------------------------------------
(* Properties of the post-processing commands (SpecPost) *)

\* the dataset's warn-only list as written in the file
ListedEntries(dataset) ==
    IF warnFile.map[dataset].isList
    THEN {x \in SeqRange(warnFile.map[dataset].items) : x # Null}
    ELSE {}

\* r is a FAILED result whose name, trimmed and case-folded, is in the list
ListedFailure(r, dataset) ==
    /\ r.isDict
    /\ r.status = "FAILED"
    /\ r.validation_name # Null
    /\ \E x \in ListedEntries(dataset) :
          lower(strip(x)) = lower(strip(r.validation_name))

AppliedOk == cmd.op = "apply" /\ cmd.outcome = "ok" /\ cmd.before.kind = "array"

\* C3: after apply_warn_only succeeds on a result array, every result that was
\* FAILED with its validation_name (trimmed, case-insensitive) in the dataset's
\* warn-only list is WARNING, and converted_count is the number of such results.
C3_WarnOnlyConverts ==
    AppliedOk =>
        LET rs == cmd.before.results
            hits == {i \in 1..Len(rs) : ListedFailure(rs[i], cmd.dataset)}
        IN /\ outFile.kind = "array"
           /\ Len(outFile.results) = Len(rs)
           /\ \A i \in hits : outFile.results[i].status = "WARNING"
           /\ cmd.converted = Cardinality(hits)

C3_Witness ==
    /\ AppliedOk
    /\ cmd.converted = 2
    /\ \E i \in 1..Len(cmd.before.results) :
          /\ cmd.before.results[i] = SampleResult(NamePadA, "FAILED")
          /\ outFile.results[i].status = "WARNING"

\* C12: apply_warn_only writes the artifact exactly when it converted at least
\* one result; a conversion needs a readable result array, a readable warn-only
\* map and a FAILED result listed for the dataset; in every other case
\* converted_count is 0 and the artifact is left as it was.
C12_WritesIffConverted ==
    cmd.op = "apply" =>
        /\ cmd.wrote <=> cmd.converted > 0
        /\ cmd.wrote => outFile.kind = "array" /\ outFile # cmd.before
        /\ ~cmd.wrote => outFile = cmd.before
        /\ cmd.converted > 0 =>
              /\ cmd.outcome = "ok"
              /\ cmd.before.kind = "array"
              /\ warnFile.kind = "map"
              /\ \E i \in 1..Len(cmd.before.results) :
                    ListedFailure(cmd.before.results[i], cmd.dataset)

C12_Witness ==
    /\ AppliedOk
    /\ cmd.converted = 0
    /\ ~cmd.wrote
    /\ outFile = cmd.before
    /\ ListedEntries(cmd.dataset) # {}
    /\ \E i \in 1..Len(outFile.results) :
          outFile.results[i].isDict /\ outFile.results[i].status = "FAILED"

\* C4: across any sequence of apply_warn_only and row-count append commands on a
\* result array, no result is removed, validation_name, message, details and
\* validation_params of existing results never change, and the only status change
\* is FAILED to WARNING, made by apply_warn_only.
C4_OnlyFailedToWarning ==
    [][outFile.kind = "array" =>
          /\ outFile'.kind = "array"
          /\ Len(outFile'.results) >= Len(outFile.results)
          /\ \A i \in 1..Len(outFile.results) :
                LET old == outFile.results[i]
                    new == outFile'.results[i]
                IN /\ new.isDict = old.isDict
                   /\ new.validation_name = old.validation_name
                   /\ new.message = old.message
                   /\ new.details = old.details
                   /\ new.validation_params = old.validation_params
                   /\ \/ new.status = old.status
                      \/ /\ old.status = "FAILED"
                         /\ new.status = "WARNING"
                         /\ cmd'.op = "apply"]_vars

C4_Witness ==
    /\ AppliedOk
    /\ cmd.converted > 0
    /\ appends = MaxAppends
    /\ \E i \in 1..Len(cmd.before.results) :
          /\ cmd.before.results[i].status = "WARNING"
          /\ outFile.results[i].status = "WARNING"
    /\ \E i \in 1..Len(cmd.before.results) :
          /\ cmd.before.results[i].status = "FAILED"
          /\ outFile.results[i].status = "FAILED"

\* C5 as stated: has_blockers is true for a missing, non-JSON or non-array
\* artifact, and the apply_warn_only command exits non-zero in all those cases.
C5_ExitsNonZeroOnMalformed ==
    /\ outFile.kind # "array" => has_blockers(outFile)
    /\ (cmd.op = "apply" /\ cmd.before.kind # "array") => cmd.exit # 0

\* C5 amended: has_blockers is true for a missing, non-JSON or non-array
\* artifact; the command exits non-zero when the artifact is missing or not
\* valid JSON and, with --check_blockers, also when it is valid JSON but not an
\* array; the blocker check never answers "none" for such an artifact.
C5_FailClosed ==
    /\ outFile.kind # "array" => has_blockers(outFile)
    /\ (cmd.op = "apply" /\ cmd.before.kind \in {"missing", "invalid"}) => cmd.exit # 0
    /\ (cmd.op = "apply" /\ cmd.before.kind # "array" /\ cmd.check_blockers) => cmd.exit # 0
    /\ (cmd.op = "apply" /\ cmd.before.kind # "array") => cmd.blockers # "none"

C5_Witness ==
    /\ cmd.op = "apply"
    /\ cmd.before.kind = "object"
    /\ cmd.outcome = "ok"
    /\ cmd.check_blockers
    /\ cmd.blockers = "blockers"
    /\ cmd.exit = 1

\* C6: with --check_blockers, on a result array whose override was applied, the
\* blocker check sees the artifact as persisted after the conversion: the exit
\* code is 1 exactly when a FAILED result remains, i.e. when some FAILED result
\* was not in the dataset's warn-only list.
C6_BlockersAfterOverride ==
    (AppliedOk /\ cmd.check_blockers) =>
        LET rs == cmd.before.results
        IN /\ cmd.exit \in {0, 1}
           /\ cmd.exit = 1 <=> \E i \in 1..Len(outFile.results) :
                                  outFile.results[i].isDict /\ outFile.results[i].status = "FAILED"
           /\ cmd.exit = 1 <=> \E i \in 1..Len(rs) :
                                  /\ rs[i].isDict
                                  /\ rs[i].status = "FAILED"
                                  /\ ~ListedFailure(rs[i], cmd.dataset)

C6_Witness ==
    /\ AppliedOk
    /\ cmd.check_blockers
    /\ cmd.converted > 0
    /\ cmd.exit = 0
    /\ \E i \in 1..Len(cmd.before.results) : cmd.before.results[i].status = "FAILED"

\* C7: applying the same override again, right after a successful application
\* for the same dataset, converts nothing and leaves the artifact unchanged.
C7_ReapplyIdempotent ==
    (cmd.op = "apply" /\ cmd.first >= 0) =>
        /\ cmd.outcome = "ok"
        /\ cmd.converted = 0
        /\ outFile = cmd.before

C7_Witness ==
    /\ cmd.op = "apply"
    /\ cmd.first > 0
    /\ cmd.converted = 0
    /\ outFile = cmd.before
    /\ \E i \in 1..Len(outFile.results) :
          outFile.results[i].status = "WARNING" /\ outFile.results[i].validation_name = NamePadA

----------------------------------------------------------------------------
(* Properties of the orchestrator (SpecRun) *)

Combined == dc_results \o custom_results

\* main() returned after writing the merged array
Merged == pc = "done" /\ writes = 1

\* the external tool was needed and returned fewer results than rules submitted
PartialOutput == toolCalls # <<>> /\ Len(dc_results) < Len(toolCalls[1])

ToolRanFully == toolCalls = <<>> \/ Len(dc_results) >= Len(toolCalls[1])

CountNamed(rs, name) == Cardinality({i \in 1..Len(rs) : rs[i].validation_name = name})

\* C1: a run that merged, whose external tool ran fully (or was not needed) and
\* whose merged array holds no FAILED result, exits 0, also when some result is
\* WARNING, CONFIG_ERROR or DATA_ERROR.
C1_ExitZeroWithoutFailed ==
    (/\ Merged
     /\ ToolRanFully
     /\ \A i \in 1..Len(outFile.results) : outFile.results[i].status # "FAILED")
    => exitCode = 0

\* C2: a run that got past config loading exits non-zero whenever the external
\* tool returned fewer results than rules submitted or a merged result is FAILED.
C2_NonZeroOnPartialOrFailed ==
    (/\ pc = "done"
     /\ configFile.kind = "config"
     /\ \/ PartialOutput
        \/ \E i \in 1..Len(Combined) : Combined[i].status = "FAILED")
    => exitCode \notin {0, -1}

C2_Witness ==
    /\ Merged
    /\ PartialOutput
    /\ Len(outFile.results) >= 1
    /\ \A i \in 1..Len(outFile.results) : outFile.results[i].status = "PASSED"
    /\ exitCode = 1

RuleIds == {configFile.rules[i].rule_id : i \in 1..Len(configFile.rules)}

EnabledRules(name) ==
    {i \in 1..Len(configFile.rules) :
        configFile.rules[i].rule_id = name /\ configFile.rules[i].enabled}

\* C9 as stated: in a completed run whose external tool returned one result per
\* rule submitted, the merged array holds exactly one result per enabled rule,
\* whatever its validator, and none for a disabled rule.
C9_OneResultPerEnabledRule ==
    (Merged /\ ~PartialOutput) =>
        \A name \in RuleIds :
            CountNamed(outFile.results, name) = Cardinality(EnabledRules(name))

\* C9 amended: ... exactly one result per enabled rule whose validator is not
\* LINT_ERROR_COUNT (excluded from the external tool and not run locally), and
\* none for a disabled rule or an enabled LINT_ERROR_COUNT rule.
C9_OneResultPerRunRule ==
    (Merged /\ ~PartialOutput) =>
        /\ \A name \in RuleIds :
              CountNamed(outFile.results, name) =
                  Cardinality({i \in EnabledRules(name) :
                                  configFile.rules[i].validator # "LINT_ERROR_COUNT"})
        /\ \A i \in 1..Len(outFile.results) : outFile.results[i].validation_name \in RuleIds

C9_Witness ==
    /\ Merged
    /\ ~PartialOutput
    /\ toolCalls # <<>>
    /\ custom_results # <<>>
    /\ Len(outFile.results) = 2
    /\ outFile.results[1].validation_name # outFile.results[2].validation_name

\* C10: when the evaluation of a rule fails unexpectedly (lint report not valid
\* JSON, counter value not integer-like), the run still persists an array that
\* holds the external tool's results.
C10_AggregateDespiteFailure ==
    (pc = "done" /\ raised # "" /\ custom_rules # <<>> /\ dc_results # <<>>) =>
        /\ writes = 1
        /\ outFile.kind = "array"
        /\ Len(outFile.results) >= Len(dc_results)
        /\ SubSeq(outFile.results, 1, Len(dc_results)) = dc_results

\* the artifact as the run found it
Unwritten == outFile \in {OtherFile("missing"), StaleFile}

\* C11: the orchestrator writes the artifact at most once; nothing is written
\* before the external tool and the local evaluators have finished; once the
\* merge step is passed the artifact has been written exactly once and holds
\* exactly the external results followed by the local results; and every run
\* that returns from the merge step has written once.
C11_WritesOnceAfterAll ==
    /\ writes \in {0, 1}
    /\ pc \in {"start", "dc", "custom", "write"} => writes = 0 /\ Unwritten
    /\ pc = "exit" => writes = 1
    /\ writes = 1 => pc \in {"exit", "done"} /\ outFile = ArrayFile(Combined)
    /\ (pc = "done" /\ raised = "" /\ exitCode # 2) => writes = 1

C11_Witness ==
    /\ pc = "exit"
    /\ writes = 1
    /\ toolCalls # <<>>
    /\ dc_results # <<>>
    /\ custom_results # <<>>
    /\ outFile.results = dc_results \o custom_results

\* the enabled rules of the config that are evaluated locally, in config order
LocalRules ==
    SelectSeq(configFile.rules,
              LAMBDA r : r.enabled /\ r.validator = "STRUCTURAL_LINT_ERROR_COUNT")

\* C13: the merged array is the external tool's results in the order returned,
\* followed by one result per locally evaluated rule in the config order of
\* those rules; no local result precedes an external one.
C13_ExternalThenLocalInOrder ==
    Merged =>
        LET n == Len(dc_results)
        IN /\ Len(outFile.results) = n + Len(LocalRules)
           /\ \A i \in 1..n : outFile.results[i] = dc_results[i]
           /\ \A j \in 1..Len(LocalRules) :
                 /\ outFile.results[n + j].validation_name = LocalRules[j].rule_id
                 /\ outFile.results[n + j] = custom_results[j]

C13_Witness ==
    /\ Merged
    /\ Len(dc_results) = 1
    /\ Len(LocalRules) = 1
    /\ outFile.results[1] = dc_results[1]
    /\ outFile.results[2].validation_name = LocalRules[1].rule_id
    /\ outFile.results[1].validation_name # outFile.results[2].validation_name

\* some enabled rule of the config has to be run by the external tool
NeedsTool ==
    \E i \in 1..Len(configFile.rules) :
        /\ configFile.rules[i].enabled
        /\ configFile.rules[i].validator
               \notin {"STRUCTURAL_LINT_ERROR_COUNT", "LINT_ERROR_COUNT"}

\* C14: a run whose config file does not exist, or whose rules need the external
\* tool while DATA_REPO is unset or not a directory, exits 2 without invoking
\* the tool and without writing the artifact.
C14_ExitTwoBeforeTool ==
    (/\ pc = "done"
     /\ \/ configFile.kind = "missing"
        \/ configFile.kind = "config" /\ NeedsTool /\ ~dataRepo)
    => /\ exitCode = 2
       /\ toolCalls = <<>>
       /\ writes = 0
       /\ Unwritten

C14_Witness ==
    /\ pc = "done"
    /\ configFile.kind = "config"
    /\ NeedsTool
    /\ ~dataRepo
    /\ exitCode = 2
    /\ toolCalls = <<>>
    /\ outFile = StaleFile

\* the enabled rules of the config that neither run locally nor are excluded
ToolRules ==
    SelectSeq(configFile.rules,
              LAMBDA r : r.enabled
                         /\ r.validator # "STRUCTURAL_LINT_ERROR_COUNT"
                         /\ r.validator # "LINT_ERROR_COUNT")

\* C27: in one run the external tool is invoked at most once, with exactly the
\* enabled rules whose validator is neither local nor excluded, in config
\* order; it is not invoked when there is no such rule.
C27_ToolOnceWithFilteredRules ==
    /\ Len(toolCalls) <= 1
    /\ toolCalls # <<>> => toolCalls[1] = ToolRules /\ ToolRules # <<>>
    /\ (configFile.kind = "config" /\ ToolRules = <<>>) => toolCalls = <<>>

C27_Witness ==
    /\ pc = "done"
    /\ Len(toolCalls) = 1
    /\ Len(toolCalls[1]) = 1
    /\ Len(configFile.rules) = 2
    /\ \E i \in 1..2 : configFile.rules[i].validator = "LINT_ERROR_COUNT"

\* the scenario's inputs: a min-value rule and a structural lint rule with the
\* default threshold 0, and a lint report without structural errors
ScenarioConfig ==
    configFile.kind = "config"
    /\ configFile.rules = <<Rule(NameA, "MIN_VALUE_CHECK", TRUE, Params(FALSE, 0)),
                            Rule(NameB, "STRUCTURAL_LINT_ERROR_COUNT", TRUE, Params(FALSE, 0))>>

ScenarioLint ==
    \A i \in 1..Len(lintReport.counters) :
        startswith(lintReport.counters[i].key, EXCLUDE_PREFIX)

\* what the min-value evaluator returns for one non-exempt row below minimum 0
ScenarioMinValue ==
    run_min_value(Summary("file", TRUE, <<SummaryRow(StatVarCount, Cell("number", -1))>>),
                  MinParams(TRUE, TRUE, 0), NameA)

\* C21: with that config and lint report, and the min-value rule answered as the
\* min-value evaluator answers one non-exempt row below zero (WARNING, one
\* failed row), the run persists exactly two results, the min-value rule's
\* WARNING and the structural lint rule's PASSED, and exits 0.
C21_EndToEndScenario ==
    (/\ Merged
     /\ ScenarioConfig
     /\ ScenarioLint
     /\ Len(dc_results) = 1
     /\ dc_results[1].validation_name = NameA
     /\ dc_results[1].status = ScenarioMinValue.status)
    => /\ ScenarioMinValue.status = "WARNING"
       /\ ScenarioMinValue.details.rows_failed = 1
       /\ Len(outFile.results) = 2
       /\ outFile.results[1].validation_name = NameA
       /\ outFile.results[1].status = "WARNING"
       /\ outFile.results[2].validation_name = NameB
       /\ outFile.results[2].status = "PASSED"
       /\ exitCode = 0

----------------------------------------------------------------------------
(* Properties of the writers under interruption (SpecCrash) *)

\* C8: when a writer of the artifact is interrupted during its write, the
\* artifact is the complete previous content or the complete new array.
C8_AtomicReplace ==
    writer.state = "killed" => outFile \in {writer.old, writer.new}

----------------------------------------------------------------------------
(* Properties of the local evaluators (SpecEval) *)

\* the structural lint evaluator returned a result
LintDone == ev.phase = "done" /\ ev.kind = "lint" /\ ev.raised = ""

ThresholdOf(params) == IF params.has_threshold THEN params.threshold ELSE 0

\* C15: the structural lint evaluator returns FAILED exactly when
\* lint_error_count is greater than the threshold (0 when params has none) and
\* PASSED otherwise, never another status; a count equal to the threshold passes.
C15_FailedIffAboveThreshold ==
    LintDone =>
        /\ Len(ev.results) = 1
        /\ ev.results[1].status \in {"FAILED", "PASSED"}
        /\ ev.results[1].status = "FAILED"
              <=> ev.results[1].details.lint_error_count > ThresholdOf(ev.params)

C15_Witness ==
    /\ LintDone
    /\ ev.params.has_threshold
    /\ ev.params.threshold = 2
    /\ ev.results[1].details.lint_error_count = 2
    /\ ev.results[1].status = "PASSED"

\* the key of a counter names a resolution diagnostic
IsResolution(c) == Len(c.key) >= 1 /\ c.key[1] = "Existence_FailedDcCall_"

RECURSIVE StructuralSum(_)
StructuralSum(cs) ==
    IF cs = <<>> THEN 0
    ELSE (IF IsResolution(Head(cs)) THEN 0 ELSE Head(cs).value) + StructuralSum(Tail(cs))

OnlyResolution(report) ==
    \A i \in 1..Len(report.counters) : IsResolution(report.counters[i])

\* C16: lint_error_count is the sum of the LEVEL_ERROR counters whose key does
\* not start with Existence_FailedDcCall_; for any threshold of 0 or more, a
\* report whose LEVEL_ERROR counters are all resolution diagnostics, whatever
\* their values, and a missing or empty report give count 0 and PASSED.
C16_ResolutionCountersExcluded ==
    (ev.phase = "done" /\ ev.kind = "lint" /\ ev.report.kind # "invalid") =>
        /\ ev.raised = "" =>
              ev.results[1].details.lint_error_count = StructuralSum(ev.report.counters)
        /\ OnlyResolution(ev.report) =>
              /\ ev.raised = ""
              /\ ev.results[1].details.lint_error_count = 0
              /\ ev.results[1].status = "PASSED"

C16_Witness ==
    /\ LintDone
    /\ ev.report.kind = "report"
    /\ Len(ev.report.counters) = 2
    /\ IsResolution(ev.report.counters[1])
    /\ ev.report.counters[1].value = 2
    /\ ~IsResolution(ev.report.counters[2])
    /\ ev.results[1].details.lint_error_count = 1
    /\ ev.results[1].status = "FAILED"

\* the min-value evaluator returned
MinDone == ev.phase = "done" /\ ev.kind = "min"

MinResult == ev.results[1]

\* the evaluator read the rows of the summary
Scanned == ev.params.has_minimum /\ ev.summary.kind = "file" /\ ev.summary.has_min_value

MinimumOf(params) == IF params.numeric THEN params.minimum ELSE 0

ExemptRow(row) ==
    \E kw \in {KwIncremental, KwGrowthRate, KwNet, KwChange} : contains(row.StatVar, kw)

Parseable(row) == row.MinValue.kind = "number"

\* a non-exempt row whose MinValue parses to a number below the minimum
BelowMinimum(row) ==
    ~ExemptRow(row) /\ Parseable(row) /\ row.MinValue.value < MinimumOf(ev.params)

\* C17: the min-value evaluator never returns FAILED; its status is PASSED,
\* WARNING, CONFIG_ERROR or DATA_ERROR, and it is WARNING exactly when the rows
\* were read and at least one non-exempt row has a parsed MinValue below the
\* minimum.
C17_NeverFailed ==
    MinDone =>
        /\ MinResult.status \in {"PASSED", "WARNING", "CONFIG_ERROR", "DATA_ERROR"}
        /\ MinResult.status = "WARNING"
              <=> (Scanned /\ \E i \in 1..Len(ev.summary.rows) :
                                  BelowMinimum(ev.summary.rows[i]))

C17_Witness ==
    /\ MinDone
    /\ Scanned
    /\ Len(ev.summary.rows) = 2
    /\ BelowMinimum(ev.summary.rows[1])
    /\ BelowMinimum(ev.summary.rows[2])
    /\ MinResult.status = "WARNING"

\* C18: rows whose StatVar contains Incremental, GrowthRate, Net or Change
\* (case-sensitive substring) are in none of rows_processed, rows_failed and
\* failed_rows; the non-exempt rows below the minimum are exactly the rows
\* counted in rows_failed and listed, in order and with their actual value, in
\* failed_rows, and one such row makes the status WARNING.
C18_ExemptRowsExcluded ==
    (MinDone /\ Scanned) =>
        LET rows == ev.summary.rows
            below == SelectSeq(rows, BelowMinimum)
            d == MinResult.details
        IN /\ d.rows_processed <= Cardinality({i \in 1..Len(rows) : ~ExemptRow(rows[i])})
           /\ d.rows_failed = Len(below)
           /\ Len(d.failed_rows) = Len(below)
           /\ \A j \in 1..Len(below) :
                 /\ d.failed_rows[j].stat_var = below[j].StatVar
                 /\ d.failed_rows[j].actual_min_value = below[j].MinValue.value
           /\ below # <<>> => MinResult.status = "WARNING" /\ "failed_rows" \in d.keys

C18_Witness ==
    /\ MinDone
    /\ Scanned
    /\ Len(ev.summary.rows) = 2
    /\ ev.summary.rows[1] = SummaryRow(StatVarNoChange, Cell("number", -1))
    /\ ev.summary.rows[2] = SummaryRow(StatVarInternet, Cell("number", -1))
    /\ MinResult.status = "WARNING"
    /\ MinResult.details.rows_processed = 1
    /\ MinResult.details.rows_failed = 1
    /\ MinResult.details.failed_rows[1].stat_var = StatVarInternet

\* C19: rows_processed is the number of non-exempt rows whose MinValue parses
\* to a number; a row with an empty or unparsable MinValue is counted neither
\* in rows_processed nor in rows_failed.
C19_ProcessedCountsParseable ==
    (MinDone /\ Scanned) =>
        LET rows == ev.summary.rows
        IN /\ MinResult.details.rows_processed =
                 Cardinality({i \in 1..Len(rows) : ~ExemptRow(rows[i]) /\ Parseable(rows[i])})
           /\ MinResult.details.rows_failed <=
                 Cardinality({i \in 1..Len(rows) : ~ExemptRow(rows[i]) /\ Parseable(rows[i])})

\* C20: the min-value evaluator returns a result for each of the expected
\* conditions: CONFIG_ERROR when params has no minimum, whether or not the
\* summary exists; PASSED with rows_processed 0 when minimum is given and the
\* summary path is absent or not a file; DATA_ERROR when the summary has no
\* MinValue column.
C20_StructuredResults ==
    MinDone =>
        /\ Len(ev.results) = 1
        /\ MinResult.isDict
        /\ MinResult.validation_name = NameA
        /\ MinResult.validation_params = ev.params
        /\ ~ev.params.has_minimum => MinResult.status = "CONFIG_ERROR"
        /\ (ev.params.has_minimum /\ ev.summary.kind \in {"none", "missing"}) =>
              /\ MinResult.status = "PASSED"
              /\ MinResult.details.rows_processed = 0
              /\ "rows_processed" \in MinResult.details.keys
        /\ (ev.params.has_minimum /\ ev.summary.kind = "file"
            /\ ~ev.summary.has_min_value) => MinResult.status = "DATA_ERROR"

C20_Witness ==
    /\ MinDone
    /\ ~ev.params.has_minimum
    /\ ev.summary.kind = "missing"
    /\ MinResult.status = "CONFIG_ERROR"

\* C30: every result the min-value evaluator returns after reading the rows has
\* rows_processed = rows_succeeded + rows_failed with all three at least 0,
\* and when failed_rows is present its length is rows_failed.
C30_CountsAddUp ==
    (MinDone /\ Scanned) =>
        LET d == MinResult.details
        IN /\ CountKeys \subseteq d.keys
           /\ d.rows_processed = d.rows_succeeded + d.rows_failed
           /\ d.rows_processed >= 0
           /\ d.rows_succeeded >= 0
           /\ d.rows_failed >= 0
           /\ "failed_rows" \in d.keys => Len(d.failed_rows) = d.rows_failed

C30_Witness ==
    /\ MinDone
    /\ Scanned
    /\ "failed_rows" \in MinResult.details.keys
    /\ MinResult.details.rows_processed = 2
    /\ MinResult.details.rows_succeeded = 1
    /\ MinResult.details.rows_failed = 1
    /\ \E i \in 1..2 : ~Parseable(ev.summary.rows[i])

----------------------------------------------------------------------------
(* Properties of the fluctuation samples (SpecFluct) *)

\* extract_fluctuation_samples returned a sample for the counter
FluctDone == ev.phase = "done" /\ ev.kind = "fluct" /\ ev.samples # <<>>

FluctSample == ev.samples[1]

SortedPoints == FluctSample.problemPoints

Signals == FluctSample.technical_signals

HasDate(p) == p.date # Null /\ p.date # <<>>

Occurrences(points, p) == Cardinality({i \in 1..Len(points) : points[i] = p})

\* the two points the signals have to be computed from
PrevPoint == SortedPoints[Len(SortedPoints) - 1]
CurrPoint == SortedPoints[Len(SortedPoints)]

\* C22: in every sample, problemPoints holds exactly the source points that
\* have a date, each as often as in the source, in ascending order of the raw
\* date string; technical_signals is present exactly when there are at least two
\* such points, and its previous and current values are those of the last two
\* points of that order.
C22_SortedPointsLastTwo ==
    FluctDone =>
        /\ \A p \in PointSamples :
              Occurrences(SortedPoints, p) =
                  IF HasDate(p) THEN Occurrences(ev.counter.problemPoints, p) ELSE 0
        /\ \A i, j \in 1..Len(SortedPoints) :
              i < j => ~StrLess(SortedPoints[j].date, SortedPoints[i].date)
        /\ Signals.present <=> Len(SortedPoints) >= 2
        /\ Signals.present =>
              /\ Signals.previous_value =
                    (IF PrevPoint.value.kind = "number" THEN PrevPoint.value ELSE NoVal)
              /\ Signals.current_value =
                    (IF CurrPoint.value.kind = "number" THEN CurrPoint.value ELSE NoVal)

C22_Witness ==
    /\ FluctDone
    /\ Len(ev.counter.problemPoints) = 3
    /\ ev.counter.problemPoints[1].date = Date20220101
    /\ ev.counter.problemPoints[2].date = <<>>
    /\ ev.counter.problemPoints[3].date = Date2020
    /\ Len(SortedPoints) = 2
    /\ SortedPoints[1].date = Date2020
    /\ Signals.present
    /\ Signals.current_value = Val("number", 250)

\* the approximate length in days of the declared periods that parse
DeclaredDays ==
    CASE ev.observationPeriod = PeriodP1Y -> 365
      [] ev.observationPeriod = PeriodLowerP1Y -> 365
      [] ev.observationPeriod = PeriodP1D -> 1
      [] ev.observationPeriod = PeriodP1Y1M -> 365 + 30
      [] OTHER -> 0

PeriodDeclared == DeclaredDays > 0

LastTwoDated == ~_parse_date(PrevPoint.date).none /\ ~_parse_date(CurrPoint.date).none

LastGap == _parse_date(CurrPoint.date).day - _parse_date(PrevPoint.date).day

\* C23: when the series declares a parseable observation period and the last
\* two points have usable dates, missing_intermediate_periods is true exactly
\* when their day gap is strictly greater than the period's length (365 per
\* year, 30 per month, 1 per day): 2020-01-01 to 2022-01-01 with P1Y is true, a
\* gap equal to the length is false.
C23_MissingPeriodsDeclared ==
    (FluctDone /\ Signals.present /\ PeriodDeclared /\ LastTwoDated) =>
        /\ Signals.missing_intermediate_periods \in {"true", "false"}
        /\ Signals.missing_intermediate_periods = "true" <=> LastGap > DeclaredDays
        /\ (PrevPoint.date = Date20200101 /\ CurrPoint.date = Date20220101
            /\ ev.observationPeriod = PeriodP1Y) =>
               LastGap = 731 /\ Signals.missing_intermediate_periods = "true"

C23_Witness ==
    /\ FluctDone
    /\ Signals.present
    /\ ev.observationPeriod = PeriodP1Y
    /\ PrevPoint.date = Date20210101
    /\ CurrPoint.date = Date20220101
    /\ LastGap = 365
    /\ Signals.missing_intermediate_periods = "false"

\* the consecutive pairs of the sorted points whose two dates parse
DatedPairs ==
    {i \in 1..(Len(SortedPoints) - 1) :
        ~_parse_date(SortedPoints[i].date).none /\ ~_parse_date(SortedPoints[i + 1].date).none}

PairGap(i) == _parse_date(SortedPoints[i + 1].date).day - _parse_date(SortedPoints[i].date).day

RECURSIVE GapSum(_)
GapSum(S) == IF S = {} THEN 0
             ELSE LET i == CHOOSE x \in S : TRUE IN PairGap(i) + GapSum(S \ {i})

\* C24: when no parseable period is declared, at least 3 points exist and the
\* last two have usable dates, missing_intermediate_periods is a boolean, true
\* exactly when the last gap exceeds both 1 and the mean of all consecutive
\* gaps; whenever one of the last two dates is not usable it is null.
C24_MissingPeriodsInferred ==
    (FluctDone /\ Signals.present) =>
        /\ (~PeriodDeclared /\ Len(SortedPoints) >= 3 /\ LastTwoDated) =>
              /\ Signals.missing_intermediate_periods \in {"true", "false"}
              /\ Signals.missing_intermediate_periods = "true"
                    <=> (/\ LastGap > 1
                         /\ LastGap * Cardinality(DatedPairs) > GapSum(DatedPairs))
        /\ ~LastTwoDated => Signals.missing_intermediate_periods = "null"

C24_Witness ==
    /\ FluctDone
    /\ Signals.present
    /\ ev.observationPeriod = <<>>
    /\ Len(SortedPoints) = 3
    /\ SortedPoints[1].date = Date20200101
    /\ SortedPoints[2].date = Date20200102
    /\ SortedPoints[3].date = Date20210101
    /\ Signals.missing_intermediate_periods = "true"

\* C25: for numeric previous and current values, percent_change is null when
\* the previous value is zero and otherwise is the finite number
\* (current - previous) / |previous| * 100, with the sign of the change (100 to
\* 150 gives 50, 100 to 25 gives -75); previous_near_zero is |previous| < 1
\* whether or not percent_change is null.
C25_PercentChange ==
    (/\ FluctDone /\ Signals.present
     /\ PrevPoint.value.kind = "number" /\ CurrPoint.value.kind = "number") =>
        LET prev == PrevPoint.value.tenths
            curr == CurrPoint.value.tenths
            pct == Signals.percent_change
        IN /\ pct.null <=> prev = 0
           /\ ~pct.null =>
                 /\ pct.den > 0
                 /\ pct.num * (IF prev < 0 THEN -prev ELSE prev) = (curr - prev) * 100 * pct.den
                 /\ curr > prev => pct.num > 0
                 /\ curr < prev => pct.num < 0
           /\ (prev = 1000 /\ curr = 1500) => pct.num = 50 * pct.den
           /\ (prev = 1000 /\ curr = 250) => pct.num = (-75) * pct.den
           /\ Signals.previous_near_zero <=> (prev < 10 /\ prev > -10)

C25_Witness ==
    /\ FluctDone
    /\ Signals.present
    /\ PrevPoint.value = Val("number", 5)
    /\ CurrPoint.value = Val("number", 1000)
    /\ Signals.previous_near_zero
    /\ ~Signals.percent_change.null
    /\ Signals.percent_change.num = 19900 * Signals.percent_change.den

----------------------------------------------------------------------------
(* Properties of config validation (SpecConfig) *)

ConfigDone == ev.phase = "done" /\ ev.kind = "config"

\* two rules of the configuration carry the same rule_id
DuplicateIds ==
    /\ ev.config.kind = "rules"
    /\ \E i, j \in 1..Len(ev.config.rules) :
          /\ i < j
          /\ ev.config.rules[i].isDict /\ ev.config.rules[i].has_rule_id
          /\ ev.config.rules[j].isDict /\ ev.config.rules[j].has_rule_id
          /\ ev.config.rules[i].rule_id = ev.config.rules[j].rule_id

\* C26: config validation reports at least one error, and exits 1, for every
\* configuration in which two rules carry the same rule_id; a configuration
\* that validates with no errors has a rule_id on every rule and the rule_ids
\* are pairwise distinct.
C26_DuplicateRuleIdsRejected ==
    ConfigDone =>
        /\ DuplicateIds => ev.errors # <<>> /\ ev.exit = 1
        /\ (ev.errors = <<>> /\ ev.config.kind = "rules") =>
              /\ ev.exit = 0
              /\ \A i \in 1..Len(ev.config.rules) : ev.config.rules[i].has_rule_id
              /\ \A i, j \in 1..Len(ev.config.rules) :
                    i # j => ev.config.rules[i].rule_id # ev.config.rules[j].rule_id

C26_Witness ==
    /\ ConfigDone
    /\ Len(ev.config.rules) = 3
    /\ ev.config.rules[1] = ConfigRule(TRUE, TRUE, NameA, TRUE)
    /\ ev.config.rules[2] = ConfigRule(TRUE, TRUE, NameB, TRUE)
    /\ ev.config.rules[3] = ConfigRule(TRUE, TRUE, NameA, TRUE)
    /\ ev.errors = <<"duplicate rule_id">>
    /\ ev.exit = 1

----------------------------------------------------------------------------
(* Properties of the report services (SpecReport) *)

SamplesDone == ev.kind = "samples" /\ ev.phase = "done"

AllObjects(results) == \A i \in 1..Len(results) : results[i].isDict

\* the results of the call that are FAILED and carry the name
FailedNamed(name) ==
    {i \in 1..Len(ev.results) :
        /\ ev.results[i].status = "FAILED"
        /\ ev.results[i].validation_name = name}

\* the results of the call that are FAILED and are not min-value results
FailedOther ==
    {i \in 1..Len(ev.results) :
        /\ ev.results[i].status = "FAILED"
        /\ ev.results[i].validation_name # NameCheckMinValue}

RECURSIVE FailedRowEntries(_)
FailedRowEntries(results) ==
    IF results = <<>> THEN 0
    ELSE (IF /\ Head(results).status = "FAILED"
             /\ Head(results).validation_name = NameCheckMinValue
             /\ "failed_rows" \in Head(results).details.keys
          THEN Len(Head(results).details.failed_rows) ELSE 0)
         + FailedRowEntries(Tail(results))

SamplesOfRule(name) == {i \in 1..Len(ev.samples) : ev.samples[i].rule = name}

\* C28: extract_rule_failure_samples emits samples only for FAILED results: the
\* samples of check_min_value are as many as the details.failed_rows entries of
\* the FAILED check_min_value results, every FAILED structural-lint,
\* unit-consistency or unrecognized result gives exactly one sample, and a
\* result of any other status (a WARNING included) gives none
C28_SamplesOnlyForFailed ==
    (SamplesDone /\ AllObjects(ev.results)) =>
        /\ ev.raised = ""
        /\ \A i \in 1..Len(ev.samples) :
              \E j \in 1..Len(ev.results) :
                 /\ ev.results[j].status = "FAILED"
                 /\ ev.samples[i].rule = (IF ev.results[j].validation_name = Null THEN <<>>
                                          ELSE ev.results[j].validation_name)
        /\ Cardinality(SamplesOfRule(NameCheckMinValue)) = FailedRowEntries(ev.results)
        /\ \A name \in {NameCheckStructuralLint, NameCheckUnitConsistency, NameA} :
              Cardinality(SamplesOfRule(name)) = Cardinality(FailedNamed(name))
        /\ Cardinality(SamplesOfRule(<<>>)) = Cardinality(FailedNamed(Null))
        /\ (FailedNamed(NameCheckScalingFactor) = {} =>
               Len(ev.samples) = FailedRowEntries(ev.results) + Cardinality(FailedOther))

\* a FAILED min-value result with two failed rows next to the evaluator's
\* WARNING with a failed row of its own: two samples
C28_Witness ==
    /\ SamplesDone
    /\ Len(ev.results) = 2
    /\ ev.results[1] = EvaluatorWarning
    /\ ev.results[2].status = "FAILED"
    /\ ev.results[2].validation_name = NameCheckMinValue
    /\ Len(ev.results[2].details.failed_rows) = 2
    /\ Len(ev.samples) = 2

DecideDone == ev.kind = "decide" /\ ev.phase = "done"

SomeFailed == \E i \in 1..Len(ev.file.results) : ev.file.results[i].status = "FAILED"

\* C29: for an array of result objects has_blockers is true exactly when the
\* review summary's overall is FAIL, exactly when the HTML report's overall is
\* FAIL (no fail override given), and exactly when some result is FAILED
C29_DecidersAgree ==
    (DecideDone /\ ev.file.kind = "array" /\ AllObjects(ev.file.results)) =>
        /\ ev.summary.returned = "summary"
        /\ ev.html.returned = "True"
        /\ (ev.blockers = "True") <=> SomeFailed
        /\ (ev.summary.overall.text = "FAIL") <=> SomeFailed
        /\ ev.overall_override # "fail" => ((ev.html.overall = "FAIL") <=> SomeFailed)

\* a WARNING next to a FAILED result, no override: all three say FAIL
C29_Witness ==
    /\ DecideDone
    /\ ev.file.kind = "array"
    /\ AllObjects(ev.file.results)
    /\ ev.overall_override = "None"
    /\ \E i, j \in 1..Len(ev.file.results) :
          ev.file.results[i].status = "WARNING" /\ ev.file.results[j].status = "FAILED"
    /\ ev.blockers = "True"
    /\ ev.summary.overall.text = "FAIL"
    /\ ev.html.overall = "FAIL"

====
